---- MODULE Spec2Model ----
(***************************************************************************)
(* The editor of better-shot: useEditorState (settings and annotations    *)
(* with a built-in undo/redo history), the generic useHistory hook driven *)
(* by the same sequence of operations, the ImageEditor component that     *)
(* wires the hook to the annotation canvas, the keyboard and the save and *)
(* copy buttons, and the App component that opens and closes the editor.  *)
(***************************************************************************)
EXTENDS Naturals, Sequences, FiniteSets

VARIABLES
  state,      \* useEditorState: the current EditorState object
  pastRef,    \* useEditorState: pastRef.current
  futureRef,  \* useEditorState: futureRef.current
  result,     \* useEditorState: the memoised EditorStateResult of the last render
  bgLoad,     \* the mount effect loadDefaultBackground: "pending", "done" or "failed" (logged)
  hCurrent,   \* useHistory<EditorState>: current
  hPast,      \* useHistory<EditorState>: pastRef.current
  hFuture,    \* useHistory<EditorState>: futureRef.current
  last,       \* history variable: the last operation and the stack lengths before it
  run,        \* history variable: the current run of mutations, undos and redos
  preLoad,    \* history variable: the image reference the background load replaced
  pending,    \* useEditorState: the setState updaters queued for the next render
  selectedAnnotation,  \* ImageEditor: <<>> for null, <<annotation>> otherwise
  selectedTool,        \* ImageEditor: the active tool
  gesture,             \* the annotation canvas: the pointer gesture under way
  event,               \* history variable: the last event the editor or the app handled
  imageLoaded,         \* ImageEditor: the screenshot image is decoded
  screenshotImage,     \* ImageEditor: 0 for null, the path of the Image object otherwise
  images,              \* the Image objects whose load or error event is still to come
  loadError,           \* ImageEditor: "null" or a message
  isSaving,            \* ImageEditor: the busy flag of handleSave
  isCopying,           \* ImageEditor: the busy flag of handleCopy
  saveJob,             \* the handleSave call under way: its position and its editor
  copyJob,             \* the handleCopy call under way: its position and its editor
  mode,                \* App: "main" or "editing"
  tempScreenshotPath,  \* App: 0 for null, the number of the capture otherwise
  isCapturing,         \* App: a capture is under way
  error,               \* App: "null" or a message
  appSaves,            \* the handleEditorSave calls awaiting save_edited_image
  session,             \* the number of ImageEditor instances mounted so far
  captures,            \* the number of screenshots taken so far
  autoApplyBackground, \* App: the setting, as settingsRef.current holds it
  shouldAutoApply,     \* the handleCapture calls under way: the setting each has read
  store,               \* settings.json: the list under "keyboardShortcuts", <<>> for none
  shortcuts,           \* App: the shortcut list
  registered,          \* the global hotkeys the system holds for the app
  ipc,                 \* the unregisterAll and register calls issued and not yet served
  updateDialog,        \* UpdateDialog: the open prop, and state, progress and error
  updateCalls          \* the onUpdate calls under way: the progress each has reported

hookVars ==
  <<state, pastRef, futureRef, result, bgLoad, hCurrent, hPast, hFuture, last, run, preLoad,
    pending>>

uiVars == <<selectedAnnotation, selectedTool, gesture, event>>

ioVars ==
  <<imageLoaded, screenshotImage, images, loadError, isSaving, isCopying, saveJob, copyJob>>

hotkeyVars == <<store, shortcuts, registered, ipc>>

dialogVars == <<updateDialog, updateCalls>>

settingsVars == <<autoApplyBackground, shouldAutoApply, hotkeyVars, dialogVars>>

appVars ==
  <<mode, tempScreenshotPath, isCapturing, error, appSaves, session, captures, settingsVars>>

vars == <<hookVars, uiVars, ioVars, appVars>>

(***************************************************************************)
(* Bounds of the exploration                                               *)
(***************************************************************************)
\* general edits are explored while the two stacks hold fewer entries than this
MaxDepth == 2
\* the blur slider is dragged one step at a time up to this value
MaxBlur == 61
\* the editor's handlers are explored while the two stacks hold fewer entries
MaxEdits == 2
\* a drag is followed for this many pointer-move samples
MaxMoves == 2
\* the app takes this many screenshots
MaxCaptures == 2
\* an editor opened by the app is explored while the two stacks hold fewer entries
MaxAppEdits == 1
\* this many handleEditorSave calls await save_edited_image at a time
MaxSaveCalls == 1
\* calls made in one event, before the render that applies them
MaxBatch == 3
\* entries on the two stacks of useHistory when it is explored alone
MaxHistoryDepth == 3
\* shortcuts in the stored list when loadSettings is called
MaxShortcuts == 5
\* unregisterAll and register calls not yet served when the effect runs again
MaxPending == 2
\* the onUpdate calls under way at a time
MaxUpdates == 2

(***************************************************************************)
(* Program constants and input sets                                        *)
(***************************************************************************)
MAX_HISTORY_SIZE == 50

DEFAULT_IMAGE == "asset-default"

DEFAULT_GRADIENT == [id |-> "g0", src |-> "g0.src", colors |-> <<"g0a", "g0b">>]

DEFAULT_SETTINGS ==
  [ backgroundType   |-> "image",
    customColor      |-> "#667eea",
    selectedImageSrc |-> DEFAULT_IMAGE,
    gradientId       |-> DEFAULT_GRADIENT.id,
    gradientSrc      |-> DEFAULT_GRADIENT.src,
    gradientColors   |-> DEFAULT_GRADIENT.colors,
    blurAmount       |-> 0,
    noiseAmount      |-> 0,
    borderRadius     |-> 18,
    shadow           |-> [blur |-> 20, offsetX |-> 0, offsetY |-> 10, opacity |-> 30] ]

\* an EditorState object: ref is the identity of the JavaScript object
EditorState(r, s, a) == [ref |-> r, settings |-> s, annotations |-> a]

DEFAULT_STATE == EditorState(0, DEFAULT_SETTINGS, <<>>)

BackgroundTypes == {"white"}
CustomColors == {"#ff0000"}
ImageSrcs == {"asset-2"}
GradientOptions == {[id |-> "g1", src |-> "g1.src", colors |-> <<"g1a", "g1b">>]}
BlurValues == {0, 20}
NoiseValues == {10}
RadiusValues == {8}
ShadowBlurValues == {5}
ShadowOffsetXValues == {3}
ShadowOffsetYValues == {4}
ShadowOpacityValues == {50}
StoredBackgrounds == {"none", "error", "stored-bg"}

AnnotationIds == {"a1", "a2"}
\* an annotation: its id and one field standing for its geometry and style
Annotation(i, g) == [id |-> i, geom |-> g]
NewAnnotations == {Annotation(i, 0) : i \in AnnotationIds}
EditedAnnotations == {Annotation("a1", 1)}
DeletedIds == {"a1"}
AnnotationLists == {<<Annotation("a2", 1)>>}

\* null and a non-null value of a nullable state
NULL == <<>>
Some(x) == <<x>>

\* ToolType: the tool modes of the toolbar
ToolTypes == {"select", "rectangle", "arrow"}
DrawingTools == ToolTypes \ {"select"}

\* keydown events: the key, the element that has the focus, metaKey || ctrlKey
\* and shiftKey
TextInputs == {"input", "textarea"}
KeyEvent(key, target, mod, shift) ==
  [key |-> key, target |-> target, mod |-> mod, shift |-> shift]
EditKeyEvents ==
  { KeyEvent("Delete", "body", FALSE, FALSE), KeyEvent("Backspace", "body", FALSE, FALSE),
    KeyEvent("Delete", "input", FALSE, FALSE), KeyEvent("Backspace", "textarea", FALSE, FALSE),
    KeyEvent("x", "body", FALSE, FALSE), KeyEvent("z", "body", TRUE, FALSE),
    KeyEvent("z", "input", TRUE, FALSE), KeyEvent("z", "body", TRUE, TRUE),
    KeyEvent("y", "body", TRUE, FALSE) }
ExportKeyEvents ==
  { KeyEvent("s", "body", TRUE, FALSE), KeyEvent("s", "input", TRUE, FALSE),
    KeyEvent("c", "body", TRUE, TRUE), KeyEvent("c", "body", TRUE, FALSE),
    KeyEvent("Escape", "body", FALSE, FALSE) }
\* how a capture ends
CaptureOutcomes ==
  { "shown", "autoApplied", "autoApplyFailed", "cancelled", "alreadyInProgress",
    "permissionDenied", "failed" }
\* how renderHighQualityCanvas ends
RenderOutcomes == {"canvas", "null", "throws"}

\* the pointer gesture of the annotation canvas; pastLen and base record
\* where the history stood when the gesture started
Gesture(phase, moves) ==
  [phase |-> phase, moves |-> moves, pastLen |-> Len(pastRef), base |-> state]
IdleGesture == [phase |-> "idle", moves |-> 0, pastLen |-> 0, base |-> DEFAULT_STATE]

Event(type, arg) == [type |-> type, arg |-> arg]

\* KeyboardShortcut
Shortcut(id, action, shortcut, enabled) ==
  [id |-> id, action |-> action, shortcut |-> shortcut, enabled |-> enabled]

DEFAULT_SHORTCUTS ==
  << Shortcut("region", "Capture Region", "CommandOrControl+Shift+2", TRUE),
     Shortcut("fullscreen", "Capture Screen", "CommandOrControl+Shift+3", FALSE),
     Shortcut("window", "Capture Window", "CommandOrControl+Shift+4", FALSE) >>

\* the keys of actionMap in setupHotkeys
CaptureActions == {"Capture Region", "Capture Screen", "Capture Window"}

\* the three shortcuts with the toggles as given
Toggled(region, fullscreen, window) ==
  << [DEFAULT_SHORTCUTS[1] EXCEPT !.enabled = region],
     [DEFAULT_SHORTCUTS[2] EXCEPT !.enabled = fullscreen],
     [DEFAULT_SHORTCUTS[3] EXCEPT !.enabled = window] >>

\* the list with another key for the region capture
Rebound(list) == <<[list[1] EXCEPT !.shortcut = "F9"]>> \o Tail(list)

\* the lists the preferences page saves: the three shortcuts with any
\* toggles, with the default key or another for the region capture, and one
\* that also holds a shortcut whose id is none of the three
SavedLists ==
  {Toggled(r, f, w) : r, f, w \in BOOLEAN}
    \cup {Rebound(Toggled(r, f, w)) : r, f, w \in BOOLEAN}
    \cup {DEFAULT_SHORTCUTS \o <<Shortcut("ocr", "Capture Text", "F10", TRUE)>>}

\* the lists setShortcuts is given while hotkeys are being registered
HotkeyLists == {DEFAULT_SHORTCUTS, Toggled(TRUE, TRUE, FALSE), Toggled(FALSE, TRUE, FALSE)}

\* new Image() of the image effect, with onload and onerror set
Image(path, instance) == [path |-> path, instance |-> instance, handlers |-> TRUE]

\* mutant: the cleanup leaves the handlers in place
CleanupKeepsHandlers(imgs) == imgs

\* the cleanup of the image effect: img.onload = null; img.onerror = null.
\* Every image but the one of the last effect run has had it already.
Cleanup(imgs) == {[img EXCEPT !.handlers = FALSE] : img \in imgs}

\* the image effect of the editor `instance`, run for imagePath `path`, after
\* the cleanup of its previous run
ImageEffect(imgs, path, instance) == Cleanup(imgs) \cup {Image(path, instance)}

\* UpdateDialog: the open prop and the three useState values
Dialog(isOpen, st, value, err) ==
  [open |-> isOpen, state |-> st, progress |-> value, error |-> err]

\* useState("available"), useState(0), useState(null)
ClosedDialog == Dialog(FALSE, "available", 0, "null")

\* the values onUpdate hands its progress callback
ProgressValues == {50, 100}

\* an asynchronous handler call: where it stands and the ImageEditor instance
\* whose callbacks it holds
Job(pc, instance) == [pc |-> pc, instance |-> instance]
NoJob == Job("idle", 0)

(***************************************************************************)
(* Array helpers, as the JavaScript the hooks use computes them            *)
(***************************************************************************)
\* arr.slice(-n): the last n elements, the whole array when it is shorter
SliceLast(arr, n) ==
  IF Len(arr) <= n THEN arr ELSE SubSeq(arr, Len(arr) - n + 1, Len(arr))

\* arr.slice(0, n): the first n elements, the whole array when it is shorter
SliceFirst(arr, n) ==
  IF Len(arr) <= n THEN arr ELSE SubSeq(arr, 1, n)

\* mutant: slice(0), a copy of the whole array
DropLastNothing(arr) == arr

\* arr.slice(0, -1)
DropLast(arr) == SubSeq(arr, 1, Len(arr) - 1)

\* arr.slice(1)
DropFirst(arr) == SubSeq(arr, 2, Len(arr))

\* arr with its i-th entry removed
RemoveAt(arr, i) == SubSeq(arr, 1, i - 1) \o SubSeq(arr, i + 1, Len(arr))

\* arr.map(ann => ann.id === annotation.id ? annotation : ann)
MapReplace(arr, annotation) ==
  [i \in 1..Len(arr) |-> IF arr[i].id = annotation.id THEN annotation ELSE arr[i]]

\* arr.filter(ann => ann.id !== id)
RECURSIVE FilterOut(_, _)
FilterOut(arr, id) ==
  IF arr = <<>> THEN <<>>
  ELSE IF Head(arr).id # id THEN <<Head(arr)>> \o FilterOut(Tail(arr), id)
  ELSE FilterOut(Tail(arr), id)

\* { ...settings, ...updates }
Spread(settings, updates) ==
  [f \in DOMAIN settings |-> IF f \in DOMAIN updates THEN updates[f] ELSE settings[f]]

(***************************************************************************)
(* Object identity: every object literal is a new object, distinct from   *)
(* every object still referenced                                           *)
(***************************************************************************)
RefsOf(arr) == {arr[i].ref : i \in 1..Len(arr)}

\* the identity of a newly created object: the first one that no object in
\* `kept` (the objects still referenced once the update has run) has
FreshRef(kept) ==
  CHOOSE n \in 0..Cardinality(kept) :
    /\ n \notin kept
    /\ \A m \in 0..n : m < n => m \in kept

(***************************************************************************)
(* useEditorState: pieces of the setState updaters                         *)
(***************************************************************************)
\* mutant: slice(0, MAX_HISTORY_SIZE), which keeps the oldest entries
PushPastKeepOldest(past, prev) == SliceFirst(Append(past, prev), MAX_HISTORY_SIZE)

\* mutant: no slice, past grows without bound
PushPastNoCap(past, prev) == Append(past, prev)

\* pastRef.current = [...pastRef.current, prev].slice(-MAX_HISTORY_SIZE)
PushPast(past, prev) == SliceLast(Append(past, prev), MAX_HISTORY_SIZE)

\* mutant: the undone state is appended to future instead of prepended
PushFutureAtEnd(future, prev) == SliceFirst(Append(future, prev), MAX_HISTORY_SIZE)

\* mutant: future is cut one entry short of the cap
PushFutureCutShort(future, prev) == SliceFirst(<<prev>> \o future, MAX_HISTORY_SIZE - 1)

\* futureRef.current = [prev, ...futureRef.current].slice(0, MAX_HISTORY_SIZE)
PushFuture(future, prev) == SliceFirst(<<prev>> \o future, MAX_HISTORY_SIZE)

\* mutant: the mutator forgets to clear future
ClearFutureKept(future) == future

\* futureRef.current = [] in every mutator
ClearFuture(future) == <<>>

\* mutant: undo takes the oldest entry
UndoTargetOldest(past) == past[1]

\* undo: const previous = pastRef.current[pastRef.current.length - 1]
UndoTarget(past) == past[Len(past)]

\* mutant: redo takes the last entry of future
RedoTargetLast(future) == future[Len(future)]

\* redo: const next = futureRef.current[0]
RedoTarget(future) == future[1]

\* { ...prev, settings: { ...prev.settings, ...updates } }
WithSettings(prev, updates, kept) ==
  EditorState(FreshRef(kept), Spread(prev.settings, updates), prev.annotations)

\* mutant: the shadow is rebuilt from the defaults and the updates
WithShadowFromDefaults(prev, updates, kept) ==
  EditorState(FreshRef(kept),
              [prev.settings EXCEPT !.shadow = Spread(DEFAULT_SETTINGS.shadow, updates)],
              prev.annotations)

\* { ...prev, settings: { ...prev.settings, shadow: { ...prev.settings.shadow, ...updates } } }
WithShadow(prev, updates, kept) ==
  EditorState(FreshRef(kept),
              [prev.settings EXCEPT !.shadow = Spread(prev.settings.shadow, updates)],
              prev.annotations)

\* { ...prev, annotations: ... }
WithAnnotations(prev, annotations, kept) ==
  EditorState(FreshRef(kept), prev.settings, annotations)

\* mutant: the memo is recomputed only when settings or annotations differ in value
MemoDepsChangedByValue(prevState, nextState) ==
  prevState.settings # nextState.settings \/ prevState.annotations # nextState.annotations

\* the useMemo dependency array changes exactly when the state object does:
\* setAnnotations is rebuilt for every new state object (its deps are
\* [pushState, state]), and every new state object carries a new settings or
\* annotations object
MemoDepsChanged(prevState, nextState) == prevState.ref # nextState.ref

\* the object built inside useMemo
MemoValue(s, past, future) ==
  [ settings    |-> s.settings,
    annotations |-> s.annotations,
    canUndo     |-> Len(past) > 0,
    canRedo     |-> Len(future) > 0 ]

\* useMemo(() => ({...}), [...]) at the render that follows an update
UseMemo(memo, prevState, nextState, past, future) ==
  IF MemoDepsChanged(prevState, nextState) THEN MemoValue(nextState, past, future)
  ELSE memo

\* resolveBackgroundPath(storedBg): the displayable source of a stored reference
ResolveBackgroundPath(storedBg) == "asset-" \o storedBg

(***************************************************************************)
(* useHistory<EditorState>                                                 *)
(***************************************************************************)
\* mutant: useHistory keeps the oldest entries of past
HistoryPushPastKeepOldest(past, prev) == SliceFirst(Append(past, prev), MAX_HISTORY_SIZE)

\* pastRef.current = [...pastRef.current, prev].slice(-MAX_HISTORY_SIZE)
HistoryPushPast(past, prev) == SliceLast(Append(past, prev), MAX_HISTORY_SIZE)

\* futureRef.current = [prev, ...futureRef.current].slice(0, MAX_HISTORY_SIZE)
HistoryPushFuture(future, prev) == SliceFirst(<<prev>> \o future, MAX_HISTORY_SIZE)

\* the HistoryState object built at every render
HistoryState ==
  [ current |-> hCurrent,
    canUndo |-> Len(hPast) > 0,
    canRedo |-> Len(hFuture) > 0 ]

\* set(value)
HistorySet(value) ==
  /\ hPast' = HistoryPushPast(hPast, hCurrent)
  /\ hFuture' = <<>>
  /\ hCurrent' = value

\* undo()
HistoryUndo ==
  IF Len(hPast) = 0 THEN UNCHANGED <<hCurrent, hPast, hFuture>>
  ELSE /\ hCurrent' = hPast[Len(hPast)]
       /\ hPast' = DropLast(hPast)
       /\ hFuture' = HistoryPushFuture(hFuture, hCurrent)

\* redo()
HistoryRedo ==
  IF Len(hFuture) = 0 THEN UNCHANGED <<hCurrent, hPast, hFuture>>
  ELSE /\ hCurrent' = hFuture[1]
       /\ hFuture' = DropFirst(hFuture)
       /\ hPast' = HistoryPushPast(hPast, hCurrent)

\* mutant: reset leaves future as it is
HistoryResetKeepsFuture(value) ==
  /\ hPast' = <<>>
  /\ hFuture' = hFuture
  /\ hCurrent' = value

\* reset(value)
HistoryReset(value) ==
  /\ hPast' = <<>>
  /\ hFuture' = <<>>
  /\ hCurrent' = value

\* the values given to set and reset: the default state and two others
HistoryValues ==
  {DEFAULT_STATE} \cup
    {EditorState(1, Spread(DEFAULT_SETTINGS, [blurAmount |-> amount]), <<>>) :
       amount \in BlurValues}

(***************************************************************************)
(* History variables (not program state): what the last operation was and *)
(* where the current run of mutations, undos and redos stands             *)
(***************************************************************************)
Mutators ==
  { "setBackgroundType", "setCustomColor", "setSelectedImage", "setGradient",
    "setBlurAmount", "setNoiseAmount", "setBorderRadius", "handleImageSelect",
    "setShadowBlur", "setShadowOffsetX", "setShadowOffsetY", "setShadowOpacity",
    "addAnnotation", "updateAnnotation", "deleteAnnotation", "setAnnotations" }

\* op: the operation; pastLen, futureLen: the stack lengths before it;
\* hit: whether an annotation of the current state had the id it was given
Last(op, hit) ==
  [op |-> op, pastLen |-> Len(pastRef), futureLen |-> Len(futureRef), hit |-> hit]

NoRun(s) == [base |-> s, top |-> s, k |-> 0, undos |-> 0, redos |-> 0]

\* k consecutive mutations from base, then undos, then redos; a run is
\* followed from a state with a short history, or from the end of a run of
\* MAX_HISTORY_SIZE mutations
RunAfterMutation(prev, next) ==
  LET pure == run.k >= 1 /\ run.undos = 0 /\ run.redos = 0 IN
  IF pure /\ run.k < MAX_HISTORY_SIZE
  THEN [run EXCEPT !.k = @ + 1, !.top = next]
  ELSE IF pure \/ Len(pastRef) + Len(futureRef) < MaxDepth
  THEN [base |-> prev, top |-> next, k |-> 1, undos |-> 0, redos |-> 0]
  ELSE NoRun(next)

RunAfterUndo(next) ==
  IF run.k >= 1 /\ run.redos = 0 /\ run.undos < run.k
  THEN [run EXCEPT !.undos = @ + 1]
  ELSE NoRun(next)

RunAfterRedo(next) ==
  IF run.k >= 1 /\ run.undos = run.k /\ run.redos < run.k
  THEN [run EXCEPT !.redos = @ + 1]
  ELSE NoRun(next)

(***************************************************************************)
(* Which calls the exploration makes                                       *)
(***************************************************************************)
History == pastRef \o <<state>> \o futureRef

\* a state the blur slider alone has produced
SliderState(s) ==
  /\ s.annotations = <<>>
  /\ s.settings = [DEFAULT_SETTINGS EXCEPT !.blurAmount = s.settings.blurAmount]

\* the whole history is one drag of the blur slider, a step at a time
SliderRun ==
  \A i \in 1..Len(History) :
    /\ SliderState(History[i])
    /\ i > 1 => History[i].settings.blurAmount = History[i - 1].settings.blurAmount + 1

Shallow == Len(pastRef) + Len(futureRef) < MaxDepth

\* the slider was dragged until past holds MAX_HISTORY_SIZE entries
FullHistory ==
  /\ Len(pastRef) = MAX_HISTORY_SIZE
  /\ futureRef = <<>>
  /\ state.settings.blurAmount = MAX_HISTORY_SIZE
  /\ SliderRun

EditWindow == Shallow \/ FullHistory

\* the store answers before the second edit
LoadWindow == Len(pastRef) + Len(futureRef) <= 1

BlurInputs ==
  (IF EditWindow THEN BlurValues ELSE {})
    \cup (IF futureRef = <<>> /\ state.settings.blurAmount < MaxBlur /\ SliderRun
          THEN {state.settings.blurAmount + 1} ELSE {})

(***************************************************************************)
(* useEditorState: operations                                              *)
(***************************************************************************)
\* an ImageEditor instance at its first render
InitEditor ==
  /\ state = DEFAULT_STATE
  /\ pastRef = <<>>
  /\ futureRef = <<>>
  /\ result = MemoValue(DEFAULT_STATE, <<>>, <<>>)
  /\ bgLoad = "pending"
  /\ hCurrent = DEFAULT_STATE
  /\ hPast = <<>>
  /\ hFuture = <<>>
  /\ last = [op |-> "init", pastLen |-> 0, futureLen |-> 0, hit |-> FALSE]
  /\ run = NoRun(DEFAULT_STATE)
  /\ preLoad = "none"
  /\ pending = <<>>
  /\ selectedAnnotation = NULL
  /\ selectedTool = "select"
  /\ gesture = IdleGesture
  /\ event = Event("mount", "")
  /\ imageLoaded = FALSE
  /\ screenshotImage = 0
  /\ loadError = "null"
  /\ isSaving = FALSE
  /\ isCopying = FALSE
  /\ saveJob = NoJob
  /\ copyJob = NoJob

\* the editor has just opened on the first screenshot
Init ==
  /\ InitEditor
  /\ mode = "editing"
  /\ tempScreenshotPath = 1
  /\ images = {Image(1, 1)}
  /\ updateDialog = ClosedDialog
  /\ updateCalls = <<>>
  /\ isCapturing = FALSE
  /\ error = "null"
  /\ appSaves = <<>>
  /\ session = 1
  /\ captures = 1
  /\ autoApplyBackground = FALSE
  /\ shouldAutoApply = <<>>
  /\ store = <<>>
  /\ shortcuts = DEFAULT_SHORTCUTS
  /\ registered = {"CommandOrControl+Shift+2"}
  /\ ipc = <<>>

\* the objects a mutator leaves referenced: the entries of both past stacks
\* (the previous state among them)
KeptByCommit ==
  RefsOf(PushPast(pastRef, state)) \cup RefsOf(HistoryPushPast(hPast, hCurrent))

\* the objects referenced while the background load's updater runs
KeptByLoad ==
  {state.ref, hCurrent.ref} \cup RefsOf(pastRef) \cup RefsOf(futureRef)
    \cup RefsOf(hPast) \cup RefsOf(hFuture)

\* the setState updater shared by every mutator, and the render after it
Commit(op, hit, newState) ==
  /\ pastRef' = PushPast(pastRef, state)
  /\ futureRef' = ClearFuture(futureRef)
  /\ state' = newState
  /\ result' = UseMemo(result, state, newState, pastRef', futureRef')
  /\ HistorySet(newState)
  /\ last' = Last(op, hit)
  /\ run' = RunAfterMutation(state, newState)
  /\ UNCHANGED <<bgLoad, preLoad, pending>>

\* updateSettings(updates)
UpdateSettings(op, updates) == Commit(op, FALSE, WithSettings(state, updates, KeptByCommit))

SetBackgroundType(type) ==
  UpdateSettings("setBackgroundType", [backgroundType |-> type])

SetCustomColor(color) ==
  UpdateSettings("setCustomColor", [customColor |-> color])

SetSelectedImage(src) ==
  UpdateSettings("setSelectedImage", [selectedImageSrc |-> src])

SetGradient(gradient) ==
  UpdateSettings("setGradient",
                    [ gradientId     |-> gradient.id,
                      gradientSrc    |-> gradient.src,
                      gradientColors |-> gradient.colors ])

SetBlurAmount(amount) ==
  UpdateSettings("setBlurAmount", [blurAmount |-> amount])

SetNoiseAmount(amount) ==
  UpdateSettings("setNoiseAmount", [noiseAmount |-> amount])

SetBorderRadius(radius) ==
  UpdateSettings("setBorderRadius", [borderRadius |-> radius])

HandleImageSelect(imageSrc) ==
  UpdateSettings("handleImageSelect",
                    [selectedImageSrc |-> imageSrc, backgroundType |-> "image"])

SetShadowBlur(blur) ==
  Commit("setShadowBlur", FALSE, WithShadow(state, [blur |-> blur], KeptByCommit))

SetShadowOffsetX(offsetX) ==
  Commit("setShadowOffsetX", FALSE, WithShadow(state, [offsetX |-> offsetX], KeptByCommit))

SetShadowOffsetY(offsetY) ==
  Commit("setShadowOffsetY", FALSE, WithShadow(state, [offsetY |-> offsetY], KeptByCommit))

SetShadowOpacity(opacity) ==
  Commit("setShadowOpacity", FALSE, WithShadow(state, [opacity |-> opacity], KeptByCommit))

HasId(annotations, id) == \E i \in 1..Len(annotations) : annotations[i].id = id

AddAnnotation(annotation) ==
  Commit("addAnnotation", HasId(state.annotations, annotation.id),
            WithAnnotations(state, Append(state.annotations, annotation), KeptByCommit))

UpdateAnnotation(annotation) ==
  Commit("updateAnnotation", HasId(state.annotations, annotation.id),
            WithAnnotations(state, MapReplace(state.annotations, annotation), KeptByCommit))

DeleteAnnotation(id) ==
  Commit("deleteAnnotation", HasId(state.annotations, id),
            WithAnnotations(state, FilterOut(state.annotations, id), KeptByCommit))

\* pushState({ ...state, annotations })
SetAnnotations(annotations) ==
  Commit("setAnnotations", FALSE, WithAnnotations(state, annotations, KeptByCommit))

Undo ==
  /\ last' = Last("undo", FALSE)
  /\ UNCHANGED <<bgLoad, preLoad, pending>>
  /\ HistoryUndo
  /\ IF Len(pastRef) = 0
     THEN UNCHANGED <<state, pastRef, futureRef, result, run>>
     ELSE /\ state' = UndoTarget(pastRef)
          /\ pastRef' = DropLast(pastRef)
          /\ futureRef' = PushFuture(futureRef, state)
          /\ result' = UseMemo(result, state, state', pastRef', futureRef')
          /\ run' = RunAfterUndo(state')

Redo ==
  /\ last' = Last("redo", FALSE)
  /\ UNCHANGED <<bgLoad, preLoad, pending>>
  /\ HistoryRedo
  /\ IF Len(futureRef) = 0
     THEN UNCHANGED <<state, pastRef, futureRef, result, run>>
     ELSE /\ state' = RedoTarget(futureRef)
          /\ futureRef' = DropFirst(futureRef)
          /\ pastRef' = PushPast(pastRef, state)
          /\ result' = UseMemo(result, state, state', pastRef', futureRef')
          /\ run' = RunAfterRedo(state')

\* mutant: the catch block lets the failed read through to setState
LoadAppliesOnError(storedBg) == storedBg # "none"

\* try { ... if (storedBg) { setState(...) } } catch: a failed Store.load or
\* store.get skips setState, and so does an empty answer
LoadApplies(storedBg) == storedBg \notin {"none", "error"}

\* the mount effect: the store answers with a stored background, with none,
\* or fails, which console.error logs
LoadDefaultBackground(storedBg) ==
  /\ bgLoad = "pending"
  /\ bgLoad' = IF storedBg = "error" THEN "failed" ELSE "done"
  /\ last' = Last("loadDefaultBackground", FALSE)
  /\ UNCHANGED <<pastRef, futureRef, hCurrent, hPast, hFuture, pending>>
  /\ IF ~LoadApplies(storedBg)
     THEN UNCHANGED <<state, result, run, preLoad>>
     ELSE /\ preLoad' = state.settings.selectedImageSrc
          /\ state' = WithSettings(state,
                        [selectedImageSrc |-> ResolveBackgroundPath(storedBg)],
                        KeptByLoad)
          /\ result' = UseMemo(result, state, state', pastRef, futureRef)
          /\ run' = NoRun(state')

(***************************************************************************)
(* ImageEditor: the annotation handlers and the keyboard                   *)
(***************************************************************************)
\* mutant: the selection survives the deletion of its annotation
SelectionAfterDeleteKept(prev, id) == prev

\* setSelectedAnnotation((prev) => prev?.id === id ? null : prev)
SelectionAfterDelete(prev, id) ==
  IF prev # NULL /\ prev[1].id = id THEN NULL ELSE prev

\* mutant: the drawing tool stays active
ToolAfterAddKept(tool) == tool

\* setSelectedTool("select") at the end of handleAnnotationAdd
ToolAfterAdd(tool) == "select"

\* mutant: undo and redo keep the selection
SelectionAfterUndoKept(prev) == prev

\* setSelectedAnnotation(null) at the end of handleUndo and handleRedo
SelectionAfterUndo(prev) == NULL

HandleAnnotationAdd(annotation) ==
  /\ AddAnnotation(annotation)
  /\ selectedAnnotation' = Some(annotation)
  /\ selectedTool' = ToolAfterAdd(selectedTool)

HandleAnnotationUpdate(annotation) ==
  /\ UpdateAnnotation(annotation)
  /\ selectedAnnotation' = Some(annotation)
  /\ UNCHANGED selectedTool

HandleAnnotationDelete(id) ==
  /\ DeleteAnnotation(id)
  /\ selectedAnnotation' = SelectionAfterDelete(selectedAnnotation, id)
  /\ UNCHANGED selectedTool

HandleUndo ==
  /\ Undo
  /\ selectedAnnotation' = SelectionAfterUndo(selectedAnnotation)
  /\ UNCHANGED selectedTool

HandleRedo ==
  /\ Redo
  /\ selectedAnnotation' = SelectionAfterUndo(selectedAnnotation)
  /\ UNCHANGED selectedTool

\* what an annotation handler leaves alone
EditorOnly == UNCHANGED <<gesture, ioVars, appVars>>

\* the toolbar's delete button, shown while an annotation is selected
HandleDeleteSelected ==
  /\ selectedAnnotation # NULL
  /\ HandleAnnotationDelete(selectedAnnotation[1].id)
  /\ event' = Event("toolbar", "delete")
  /\ EditorOnly

\* the toolbar: onToolSelect={setSelectedTool}
SelectTool(tool) ==
  /\ selectedTool' = tool
  /\ event' = Event("toolbar", tool)
  /\ UNCHANGED <<hookVars, selectedAnnotation, gesture, ioVars, appVars>>

\* mutant: only HTMLInputElement is skipped
IsTextInputNoTextarea(target) == target = "input"

\* e.target instanceof HTMLInputElement || e.target instanceof HTMLTextAreaElement
IsTextInput(target) == target \in TextInputs

\* e.key === "Delete" || e.key === "Backspace"
IsDeleteKey(key) == key \in {"Delete", "Backspace"}

\* the keys the second listener gives to undo and to redo
IsUndoKey(e) == e.mod /\ e.key = "z" /\ ~e.shift
IsRedoKey(e) == e.mod /\ ((e.key = "z" /\ e.shift) \/ e.key = "y")

\* the two keydown listeners of the window, for the keys that edit
EditKeyDown(e) ==
  /\ event' = Event("keydown", e)
  /\ UNCHANGED <<gesture, ioVars, appVars>>
  /\ IF IsTextInput(e.target)
     THEN UNCHANGED <<hookVars, selectedAnnotation, selectedTool>>
     ELSE IF IsDeleteKey(e.key) /\ selectedAnnotation # NULL
     THEN HandleAnnotationDelete(selectedAnnotation[1].id)
     ELSE IF IsUndoKey(e) THEN HandleUndo
     ELSE IF IsRedoKey(e) THEN HandleRedo
     ELSE UNCHANGED <<hookVars, selectedAnnotation, selectedTool>>

\* the Undo and Redo buttons, disabled while there is nothing to undo or redo
UndoButton ==
  /\ result.canUndo
  /\ HandleUndo
  /\ event' = Event("button", "undo")
  /\ EditorOnly

RedoButton ==
  /\ result.canRedo
  /\ HandleRedo
  /\ event' = Event("button", "redo")
  /\ EditorOnly

\* the load or error event of an image: its handler runs if it is still set,
\* and sets state if the editor that requested the image is on screen
ImageEvent(img, kind) ==
  LET handled == img.handlers /\ mode = "editing" /\ tempScreenshotPath # 0
                   /\ img.instance = session
  IN  /\ img \in images
      /\ images' = images \ {img}
      /\ event' = Event("image", IF handled THEN kind ELSE "dropped")
      /\ IF handled /\ kind = "onload"
         THEN /\ screenshotImage' = img.path
              /\ imageLoaded' = TRUE
              /\ UNCHANGED loadError
         ELSE IF handled
         THEN /\ loadError' = "Failed to load image"
              /\ UNCHANGED <<screenshotImage, imageLoaded>>
         ELSE UNCHANGED <<screenshotImage, imageLoaded, loadError>>
      /\ UNCHANGED <<hookVars, selectedAnnotation, selectedTool, gesture, appVars,
                     isSaving, isCopying, saveJob, copyJob>>

\* img.onload
ImageLoaded == \E img \in images : ImageEvent(img, "onload")

\* img.onerror: screenshotImage stays null
ImageLoadFailed == \E img \in images : ImageEvent(img, "onerror")

(***************************************************************************)
(* The annotation canvas and the properties panel, as far as they call    *)
(* the handlers of ImageEditor                                             *)
(***************************************************************************)
\* the canvas is rendered once the preview of a decoded screenshot exists
CanvasShown == imageLoaded

\* the annotation a drag has moved by one pointer-move sample
Moved(annotation) == [annotation EXCEPT !.geom = @ + 1]

\* pointer-down in a drawing tool mode
DrawStart ==
  /\ CanvasShown
  /\ gesture.phase = "idle"
  /\ selectedTool \in DrawingTools
  /\ gesture' = Gesture("drawing", 0)
  /\ event' = Event("pointerdown", selectedTool)
  /\ UNCHANGED <<hookVars, selectedAnnotation, selectedTool, ioVars, appVars>>

\* mutant: a degenerate gesture commits like any other
DrawEndKeepsDegenerate(annotation, degenerate) ==
  /\ gesture.phase = "drawing"
  /\ gesture' = IdleGesture
  /\ event' = Event(IF degenerate THEN "drawdiscard" ELSE "drawcommit", selectedTool)
  /\ UNCHANGED <<ioVars, appVars>>
  /\ HandleAnnotationAdd(annotation)

\* pointer-up of a drawing gesture: onAnnotationAdd, or nothing when the
\* geometry is degenerate (start and end equal or within epsilon)
DrawEnd(annotation, degenerate) ==
  /\ gesture.phase = "drawing"
  /\ gesture' = IdleGesture
  /\ event' = Event(IF degenerate THEN "drawdiscard" ELSE "drawcommit", selectedTool)
  /\ UNCHANGED <<ioVars, appVars>>
  /\ IF degenerate
     THEN UNCHANGED <<hookVars, selectedAnnotation, selectedTool>>
     ELSE HandleAnnotationAdd(annotation)

\* pointer-down in select mode on the i-th annotation: onAnnotationSelect
DragStart(i) ==
  /\ CanvasShown
  /\ gesture.phase = "idle"
  /\ selectedTool = "select"
  /\ selectedAnnotation' = Some(state.annotations[i])
  /\ gesture' = Gesture("dragging", 0)
  /\ event' = Event("pointerdown", "hit")
  /\ UNCHANGED <<hookVars, selectedTool, ioVars, appVars>>

\* pointer-down in select mode on no annotation: onAnnotationSelect(null)
PointerMiss ==
  /\ CanvasShown
  /\ gesture.phase = "idle"
  /\ selectedTool = "select"
  /\ selectedAnnotation' = NULL
  /\ event' = Event("pointerdown", "miss")
  /\ UNCHANGED <<hookVars, selectedTool, gesture, ioVars, appVars>>

\* a pointer-move sample of a drag: onAnnotationUpdate
DragMove ==
  /\ gesture.phase = "dragging"
  /\ selectedAnnotation # NULL
  /\ HandleAnnotationUpdate(Moved(selectedAnnotation[1]))
  /\ gesture' = [gesture EXCEPT !.moves = @ + 1]
  /\ event' = Event("pointermove", "drag")
  /\ UNCHANGED <<ioVars, appVars>>

\* pointer-up of a drag
DragEnd ==
  /\ gesture.phase = "dragging"
  /\ gesture' = IdleGesture
  /\ event' = Event("pointerup", "drag")
  /\ UNCHANGED <<hookVars, selectedAnnotation, selectedTool, ioVars, appVars>>

\* the canvas deletes the i-th annotation: onAnnotationDelete
CanvasDelete(i) ==
  /\ CanvasShown
  /\ gesture.phase = "idle"
  /\ HandleAnnotationDelete(state.annotations[i].id)
  /\ event' = Event("canvas", "delete")
  /\ EditorOnly

\* the properties panel edits the selected annotation: onUpdate
PropertiesUpdate ==
  /\ selectedAnnotation # NULL
  /\ gesture.phase = "idle"
  /\ HandleAnnotationUpdate(Moved(selectedAnnotation[1]))
  /\ event' = Event("properties", "update")
  /\ EditorOnly

(***************************************************************************)
(* ImageEditor: save and copy                                              *)
(***************************************************************************)
\* App renders <ImageEditor> while mode === "editing" && tempScreenshotPath
Mounted == mode = "editing" /\ tempScreenshotPath # 0

\* the instance whose callbacks a job holds is still the one on screen; a
\* setState of an unmounted instance changes nothing
Alive(job) == Mounted /\ job.instance = session

\* disabled={!imageLoaded || isSaving || isCopying}, and the same condition
\* before handleSave and handleCopy in the keydown listener
ExportDisabled == ~imageLoaded \/ isSaving \/ isCopying

\* handleSave up to its first await
HandleSave ==
  IF ~imageLoaded \/ isSaving \/ isCopying
  THEN UNCHANGED ioVars
  ELSE /\ isSaving' = TRUE
       /\ saveJob' = Job("render", session)
       /\ UNCHANGED <<imageLoaded, screenshotImage, images, loadError, isCopying, copyJob>>

\* handleCopy up to its first await
HandleCopy ==
  IF ~imageLoaded \/ isSaving \/ isCopying
  THEN UNCHANGED ioVars
  ELSE /\ isCopying' = TRUE
       /\ copyJob' = Job("render", session)
       /\ UNCHANGED <<imageLoaded, screenshotImage, images, loadError, isSaving, saveJob>>

SaveButton ==
  /\ Mounted /\ ~ExportDisabled
  /\ HandleSave
  /\ event' = Event("button", "save")
  /\ UNCHANGED <<hookVars, selectedAnnotation, selectedTool, gesture, appVars>>

CopyButton ==
  /\ Mounted /\ ~ExportDisabled
  /\ HandleCopy
  /\ event' = Event("button", "copy")
  /\ UNCHANGED <<hookVars, selectedAnnotation, selectedTool, gesture, appVars>>

\* handleSave after renderHighQualityCanvas: a canvas, null, or an exception
SaveRendered(outcome) ==
  /\ saveJob.pc = "render"
  /\ event' = Event("save", outcome)
  /\ UNCHANGED <<hookVars, selectedAnnotation, selectedTool, gesture, appVars,
                 imageLoaded, screenshotImage, images, isCopying, copyJob>>
  /\ IF outcome = "canvas"
     THEN /\ saveJob' = [saveJob EXCEPT !.pc = "toBlob"]
          /\ UNCHANGED <<isSaving, loadError>>
     ELSE /\ saveJob' = NoJob
          /\ isSaving' = IF Alive(saveJob) THEN FALSE ELSE isSaving
          /\ loadError' = IF Alive(saveJob) /\ outcome = "throws"
                          THEN "Failed to save" ELSE loadError

\* mutant: the toBlob callback returns on a null blob with the flag still set
SaveEncodedFlagKept(blob) ==
  /\ saveJob.pc = "toBlob"
  /\ event' = Event("save", IF blob THEN "blob" ELSE "no blob")
  /\ UNCHANGED <<hookVars, selectedAnnotation, selectedTool, gesture, appVars,
                 imageLoaded, screenshotImage, images, loadError, isCopying, copyJob>>
  /\ saveJob' = IF blob THEN [saveJob EXCEPT !.pc = "read"] ELSE NoJob
  /\ UNCHANGED isSaving

\* the toBlob callback: a blob, or null
SaveEncoded(blob) ==
  /\ saveJob.pc = "toBlob"
  /\ event' = Event("save", IF blob THEN "blob" ELSE "no blob")
  /\ UNCHANGED <<hookVars, selectedAnnotation, selectedTool, gesture, appVars,
                 imageLoaded, screenshotImage, images, loadError, isCopying, copyJob>>
  /\ IF blob
     THEN /\ saveJob' = [saveJob EXCEPT !.pc = "read"]
          /\ UNCHANGED isSaving
     ELSE /\ saveJob' = NoJob
          /\ isSaving' = IF Alive(saveJob) THEN FALSE ELSE isSaving

\* reader.onloadend: onSave(reader.result), which is handleEditorSave up to
\* its await of save_edited_image, then setIsSaving(false)
SaveRead ==
  /\ saveJob.pc = "read"
  /\ event' = Event("save", "onloadend")
  /\ appSaves' = Append(appSaves, saveJob.instance)
  /\ saveJob' = NoJob
  /\ isSaving' = IF Alive(saveJob) THEN FALSE ELSE isSaving
  /\ UNCHANGED <<hookVars, selectedAnnotation, selectedTool, gesture,
                 imageLoaded, screenshotImage, images, loadError, isCopying, copyJob,
                 mode, tempScreenshotPath, isCapturing, error, session, captures,
                 settingsVars>>

\* reader.onerror
SaveReadFailed ==
  /\ saveJob.pc = "read"
  /\ event' = Event("save", "onerror")
  /\ saveJob' = NoJob
  /\ isSaving' = IF Alive(saveJob) THEN FALSE ELSE isSaving
  /\ loadError' = IF Alive(saveJob) THEN "Failed to read image data" ELSE loadError
  /\ UNCHANGED <<hookVars, selectedAnnotation, selectedTool, gesture, appVars,
                 imageLoaded, screenshotImage, images, isCopying, copyJob>>

\* handleCopy after renderHighQualityCanvas: a canvas (save_edited_image is
\* invoked), null, or an exception
CopyRendered(outcome) ==
  /\ copyJob.pc = "render"
  /\ event' = Event("copy", outcome)
  /\ UNCHANGED <<hookVars, selectedAnnotation, selectedTool, gesture, appVars,
                 imageLoaded, screenshotImage, images, isSaving, saveJob>>
  /\ IF outcome = "canvas"
     THEN /\ copyJob' = [copyJob EXCEPT !.pc = "invoke"]
          /\ UNCHANGED <<isCopying, loadError>>
     ELSE /\ copyJob' = NoJob
          /\ isCopying' = IF Alive(copyJob) THEN FALSE ELSE isCopying
          /\ loadError' = IF Alive(copyJob) /\ outcome = "throws"
                          THEN "Failed to copy" ELSE loadError

\* handleCopy after save_edited_image: the toast, or the catch block; then
\* the finally block
CopyInvoked(ok) ==
  /\ copyJob.pc = "invoke"
  /\ event' = Event("copy", IF ok THEN "copied" ELSE "failed")
  /\ copyJob' = NoJob
  /\ isCopying' = IF Alive(copyJob) THEN FALSE ELSE isCopying
  /\ loadError' = IF Alive(copyJob) /\ ~ok THEN "Failed to copy" ELSE loadError
  /\ UNCHANGED <<hookVars, selectedAnnotation, selectedTool, gesture, appVars,
                 imageLoaded, screenshotImage, images, isSaving, saveJob>>

(***************************************************************************)
(* App: capture, and the editor's onSave and onCancel                      *)
(***************************************************************************)
\* the first render of an ImageEditor instance: the initial values of
\* useEditorState and of the component's useState calls
FreshEditor ==
  /\ state' = DEFAULT_STATE
  /\ pastRef' = <<>>
  /\ futureRef' = <<>>
  /\ result' = MemoValue(DEFAULT_STATE, <<>>, <<>>)
  /\ bgLoad' = "pending"
  /\ hCurrent' = DEFAULT_STATE
  /\ hPast' = <<>>
  /\ hFuture' = <<>>
  /\ last' = [op |-> "init", pastLen |-> 0, futureLen |-> 0, hit |-> FALSE]
  /\ run' = NoRun(DEFAULT_STATE)
  /\ preLoad' = "none"
  /\ pending' = <<>>
  /\ selectedAnnotation' = NULL
  /\ selectedTool' = "select"
  /\ gesture' = IdleGesture
  /\ imageLoaded' = FALSE
  /\ screenshotImage' = 0
  /\ loadError' = "null"
  /\ isSaving' = FALSE
  /\ isCopying' = FALSE

\* the render that follows a change of mode or tempScreenshotPath: the
\* editor is mounted, unmounted (its state is dropped), or kept with a new
\* imagePath, for which the image effect runs again
Render ==
  LET shown == mode' = "editing" /\ tempScreenshotPath' # 0 IN
  IF shown # Mounted
  THEN /\ FreshEditor
       /\ session' = IF shown THEN session + 1 ELSE session
       /\ images' = IF shown THEN ImageEffect(images, tempScreenshotPath', session')
                     ELSE Cleanup(images)
  ELSE /\ UNCHANGED <<hookVars, selectedAnnotation, selectedTool, gesture,
                      isSaving, isCopying, session>>
       /\ IF shown /\ tempScreenshotPath' # tempScreenshotPath
          THEN /\ imageLoaded' = FALSE
               /\ screenshotImage' = 0
               /\ loadError' = "null"
               /\ images' = ImageEffect(images, tempScreenshotPath', session)
          ELSE UNCHANGED <<imageLoaded, screenshotImage, loadError, images>>

\* handleCapture up to its first await, called through a closure in which
\* isCapturing has the value `seen`
HandleCaptureSeeing(seen, from) ==
  /\ ~seen
  /\ isCapturing' = TRUE
  /\ error' = "null"
  /\ shouldAutoApply' = Append(shouldAutoApply, autoApplyBackground)
  /\ event' = Event("capture", from)
  /\ UNCHANGED <<hookVars, selectedAnnotation, selectedTool, gesture, ioVars,
                 mode, tempScreenshotPath, appSaves, session, captures,
                 autoApplyBackground, hotkeyVars, dialogVars>>

\* a capture button: onClick calls the handleCapture of the last render
HandleCapture == HandleCaptureSeeing(isCapturing, "start")

\* isCapturing in the render whose effect registered the hotkeys and the
\* listeners: the effect runs when the app starts and when shortcuts or
\* settingsVersion change, with no capture under way
SeenBySetupHotkeys == FALSE

\* a global hotkey, or a capture-triggered, capture-fullscreen or
\* capture-window event: the callback calls the handleCapture of the render
\* in which setupHotkeys ran
HotkeyCapture == HandleCaptureSeeing(SeenBySetupHotkeys, "hotkey")

\* the outcomes of a capture under way: with auto-apply the screenshot is
\* processed and saved, or that fails; without it the editor is shown; the
\* native capture can be cancelled or fail either way
OutcomesOf(autoApply) ==
  (IF autoApply THEN {"autoApplied", "autoApplyFailed"} ELSE {"shown"})
    \cup {"cancelled", "alreadyInProgress", "permissionDenied", "failed"}

\* mutant: the auto-apply branch falls through to the editor
OpensEditorAlways(outcome) == outcome \in {"shown", "autoApplied", "autoApplyFailed"}

\* setTempScreenshotPath and setMode("editing") are reached only past the
\* return that ends the auto-apply branch
OpensEditor(outcome) == outcome = "shown"

\* mutant: a cancelled capture leaves the flag set
IsCapturingAfterKeptOnCancel(outcome) == outcome = "cancelled"

\* finally { setIsCapturing(false) }, of the auto-apply branch and of the
\* outer try: the flag after handleCapture, however it ends
IsCapturingAfter(outcome) == FALSE

\* the rest of handleCapture: the screenshot goes to the editor, it is
\* processed and saved without the editor (auto-apply), the user cancels the
\* capture, or the capture fails
CaptureDone(k, outcome) ==
  /\ k \in 1..Len(shouldAutoApply)
  /\ outcome \in OutcomesOf(shouldAutoApply[k])
  /\ isCapturing' = IsCapturingAfter(outcome)
  /\ shouldAutoApply' = RemoveAt(shouldAutoApply, k)
  /\ event' = Event("capture", outcome)
  /\ captures' = IF outcome \in {"shown", "autoApplied", "autoApplyFailed"}
                 THEN captures + 1 ELSE captures
  /\ error' = CASE outcome = "failed" -> "capture failed"
                 [] outcome = "alreadyInProgress" ->
                      "Please wait for the current screenshot to complete"
                 [] outcome = "permissionDenied" ->
                      "Screen Recording permission required"
                 [] outcome = "autoApplyFailed" -> "Failed to process screenshot"
                 [] OTHER -> error
  /\ IF OpensEditor(outcome)
     THEN tempScreenshotPath' = captures' /\ mode' = "editing"
     ELSE UNCHANGED <<tempScreenshotPath, mode>>
  /\ Render
  /\ UNCHANGED <<saveJob, copyJob, appSaves, autoApplyBackground, hotkeyVars, dialogVars>>

\* loadSettings: setAutoApplyBackground(savedAutoApply), and the effect that
\* copies the setting into settingsRef
SetAutoApplyBackground(savedAutoApply) ==
  /\ autoApplyBackground' = savedAutoApply
  /\ event' = Event("settings", "autoApplyBackground")
  /\ UNCHANGED <<hookVars, selectedAnnotation, selectedTool, gesture, ioVars,
                 mode, tempScreenshotPath, isCapturing, error, appSaves, session,
                 captures, shouldAutoApply, hotkeyVars, dialogVars>>

\* handleEditorSave after save_edited_image, for the k-th call under way
EditorSaveDone(k, ok) ==
  /\ k \in 1..Len(appSaves)
  /\ appSaves' = RemoveAt(appSaves, k)
  /\ event' = Event("saved", IF ok THEN "ok" ELSE "failed")
  /\ mode' = "main"
  /\ tempScreenshotPath' = IF ok THEN 0 ELSE tempScreenshotPath
  /\ error' = IF ok THEN error ELSE "save failed"
  /\ Render
  /\ UNCHANGED <<saveJob, copyJob, isCapturing, captures, settingsVars>>

HandleEditorCancel ==
  /\ mode' = "main"
  /\ tempScreenshotPath' = 0
  /\ Render
  /\ UNCHANGED <<saveJob, copyJob, isCapturing, error, appSaves, captures, settingsVars>>

CancelButton ==
  /\ Mounted
  /\ HandleEditorCancel
  /\ event' = Event("button", "cancel")

\* the second keydown listener, for the keys of save, copy and cancel
IsSaveKey(e) == e.mod /\ e.key = "s"
IsCopyKey(e) == e.mod /\ e.key = "c" /\ e.shift
IsCancelKey(e) == e.key = "Escape"

ExportKeyDown(e) ==
  /\ Mounted
  /\ event' = Event("keydown", e)
  /\ IF IsTextInput(e.target)
     THEN UNCHANGED <<hookVars, selectedAnnotation, selectedTool, gesture, ioVars, appVars>>
     ELSE IF IsSaveKey(e)
     THEN /\ IF imageLoaded /\ ~isSaving /\ ~isCopying THEN HandleSave ELSE UNCHANGED ioVars
          /\ UNCHANGED <<hookVars, selectedAnnotation, selectedTool, gesture, appVars>>
     ELSE IF IsCopyKey(e)
     THEN /\ IF imageLoaded /\ ~isSaving /\ ~isCopying THEN HandleCopy ELSE UNCHANGED ioVars
          /\ UNCHANGED <<hookVars, selectedAnnotation, selectedTool, gesture, appVars>>
     ELSE IF IsCancelKey(e) THEN HandleEditorCancel
     ELSE UNCHANGED <<hookVars, selectedAnnotation, selectedTool, gesture, ioVars, appVars>>

\* a control of the background panel, wired to the hook's setter
BackgroundPanel(type) ==
  /\ Mounted
  /\ SetBackgroundType(type)
  /\ event' = Event("panel", type)
  /\ UNCHANGED <<selectedAnnotation, selectedTool, gesture, ioVars, appVars>>

(***************************************************************************)
(* useEditorState: several calls in one event.  Every call hands setState *)
(* an updater; React runs the updater of a call at once when the component *)
(* has no update pending, and queues it for the next render otherwise.     *)
(* The guards of undo and redo read the refs when the call is made, the    *)
(* updaters read and write them when they run.                             *)
(***************************************************************************)
\* what indexing past the end of an array, and a state made of it, gives
UNDEFINED == [undefined |-> TRUE]

Defined(arr) == SelectSeq(arr, LAMBDA s : s # UNDEFINED)

\* a queued updater, or the value an updater run at call time has returned
Updater(op, updates) == [op |-> op, updates |-> updates]
Computed(value) == [op |-> "value", updates |-> value]

Hook(cur, past, future) == [cur |-> cur, past |-> past, future |-> future]

\* the objects referenced while a queued updater runs
KeptByQueue(h) ==
  RefsOf(Defined(<<state, h.cur>> \o h.past \o h.future))
    \cup {pending[i].updates.ref :
            i \in {j \in 1..Len(pending) : pending[j].op \in {"value", "pushState"}}}

\* the updater of undo, given the state before it as prev
UndoUpdater(h) ==
  Hook(IF h.past = <<>> THEN UNDEFINED ELSE UndoTarget(h.past),
       DropLast(h.past),
       PushFuture(h.future, h.cur))

\* the updater of redo
RedoUpdater(h) ==
  Hook(IF h.future = <<>> THEN UNDEFINED ELSE RedoTarget(h.future),
       DropFirst(h.future),
       PushPast(h.past, h.cur))

\* the updater of updateSettings; prev.settings of undefined throws and the
\* render fails
SettingsUpdater(h, updates) ==
  IF h.cur = UNDEFINED THEN h
  ELSE Hook(WithSettings(h.cur, updates, KeptByQueue(h)),
            PushPast(h.past, h.cur),
            ClearFuture(h.future))

\* the updater of pushState(newState)
PushStateUpdater(h, newState) ==
  Hook(newState, PushPast(h.past, h.cur), ClearFuture(h.future))

RunUpdater(u, h) ==
  CASE u.op = "value" -> Hook(u.updates, h.past, h.future)
    [] u.op = "pushState" -> PushStateUpdater(h, u.updates)
    [] u.op = "undo" -> UndoUpdater(h)
    [] u.op = "redo" -> RedoUpdater(h)
    [] u.op = "updateSettings" -> SettingsUpdater(h, u.updates)

\* the render works through the queue, each updater on the result of the
\* one before it
RECURSIVE RunQueue(_, _)
RunQueue(queue, h) ==
  IF queue = <<>> THEN h
  ELSE RunQueue(Tail(queue), RunUpdater(Head(queue), h))

\* setState(updater): run at call time (the refs change now, the state at
\* the render), or queued
SetState(u, eager) ==
  IF eager
  THEN LET h == RunUpdater(u, Hook(state, pastRef, futureRef)) IN
       /\ pastRef' = h.past
       /\ futureRef' = h.future
       /\ pending' = <<Computed(h.cur)>>
  ELSE /\ pending' = Append(pending, u)
       /\ UNCHANGED <<pastRef, futureRef>>

BatchFrame == UNCHANGED <<state, result, bgLoad, hCurrent, hPast, hFuture, run, preLoad>>

\* the component renders as long as its state is an EditorState
Rendering == state # UNDEFINED

\* setBlurAmount(amount), up to setState
SetBlurAmountCall(amount, eager) ==
  /\ Rendering
  /\ eager => pending = <<>>
  /\ SetState(Updater("updateSettings", [blurAmount |-> amount]), eager)
  /\ last' = Last("setBlurAmount", FALSE)
  /\ BatchFrame

\* undo(), up to setState
UndoCall(eager) ==
  /\ Rendering
  /\ eager => pending = <<>>
  /\ last' = Last("undo", FALSE)
  /\ BatchFrame
  /\ IF Len(pastRef) = 0
     THEN UNCHANGED <<pastRef, futureRef, pending>>
     ELSE SetState(Updater("undo", <<>>), eager)

\* redo(), up to setState
RedoCall(eager) ==
  /\ Rendering
  /\ eager => pending = <<>>
  /\ last' = Last("redo", FALSE)
  /\ BatchFrame
  /\ IF Len(futureRef) = 0
     THEN UNCHANGED <<pastRef, futureRef, pending>>
     ELSE SetState(Updater("redo", <<>>), eager)

\* setAnnotations(annotations), up to setState: newState is built when the
\* call is made, from the state of the render the callback closes over
SetAnnotationsCall(annotations, eager) ==
  /\ Rendering
  /\ eager => pending = <<>>
  /\ SetState(Updater("pushState",
                      WithAnnotations(state, annotations,
                                      KeptByQueue(Hook(state, pastRef, futureRef)))),
              eager)
  /\ last' = Last("setAnnotations", FALSE)
  /\ BatchFrame

\* the render that ends the event
RenderQueue ==
  /\ Rendering
  /\ pending # <<>>
  /\ LET h == RunQueue(pending, Hook(state, pastRef, futureRef)) IN
     /\ state' = h.cur
     /\ pastRef' = h.past
     /\ futureRef' = h.future
     /\ result' = IF h.cur = UNDEFINED THEN result
                  ELSE UseMemo(result, state, h.cur, h.past, h.future)
  /\ pending' = <<>>
  /\ UNCHANGED <<bgLoad, hCurrent, hPast, hFuture, last, run, preLoad>>

(***************************************************************************)
(* App: the shortcut list, its persistence and the global hotkeys          *)
(***************************************************************************)
DefaultIds == {DEFAULT_SHORTCUTS[i].id : i \in 1..Len(DEFAULT_SHORTCUTS)}

\* DEFAULT_SHORTCUTS.find((d) => d.id === id), for an id it holds
FindDefault(id) ==
  DEFAULT_SHORTCUTS[CHOOSE i \in 1..Len(DEFAULT_SHORTCUTS) : DEFAULT_SHORTCUTS[i].id = id]

\* savedShortcuts.map(...): a shortcut with the id of a default takes the
\* enabled flag of that default
MergedShortcuts(savedShortcuts) ==
  [i \in 1..Len(savedShortcuts) |->
     IF savedShortcuts[i].id \in DefaultIds
     THEN [savedShortcuts[i] EXCEPT !.enabled = FindDefault(savedShortcuts[i].id).enabled]
     ELSE savedShortcuts[i]]

\* savedShortcuts.filter((s) => !defaultIds.has(s.id))
CustomShortcuts(savedShortcuts) ==
  SelectSeq(savedShortcuts, LAMBDA s : s.id \notin DefaultIds)

\* [...mergedShortcuts, ...customShortcuts]
FinalShortcuts(savedShortcuts) ==
  MergedShortcuts(savedShortcuts) \o CustomShortcuts(savedShortcuts)

AppFrame ==
  UNCHANGED <<hookVars, selectedAnnotation, selectedTool, gesture, ioVars,
              mode, tempScreenshotPath, isCapturing, error, appSaves, session,
              captures, shouldAutoApply, dialogVars>>

\* the preferences page stores a shortcut list
SaveShortcuts(list) ==
  /\ store' = list
  /\ event' = Event("saveShortcuts", "")
  /\ AppFrame
  /\ UNCHANGED <<autoApplyBackground, shortcuts, registered, ipc>>

\* loadSettings: the auto-apply setting and the shortcut list are read from
\* the store, and the merged list is written back
LoadSettings(savedAutoApply) ==
  /\ autoApplyBackground' = savedAutoApply
  /\ IF store # <<>>
     THEN /\ shortcuts' = FinalShortcuts(store)
          /\ store' = FinalShortcuts(store)
     ELSE /\ shortcuts' = DEFAULT_SHORTCUTS
          /\ UNCHANGED store
  /\ event' = Event("loadSettings", "")
  /\ AppFrame
  /\ UNCHANGED <<registered, ipc>>

\* the shortcuts the loop of setupHotkeys registers, in order
Registrable(list) ==
  SelectSeq(list, LAMBDA s : s.enabled /\ s.action \in CaptureActions)

HotkeysOf(list) == {Registrable(list)[i].shortcut : i \in 1..Len(Registrable(list))}

\* a call to the global-shortcut plugin that has not been served: what it
\* is, and the shortcuts the setupHotkeys run awaiting it registers after it
Call(call, key, rest) == [call |-> call, key |-> key, rest |-> rest]

\* unregisterAll().catch(console.error) in the cleanup of the effect
CleanupCall == Call("unregisterAll", "", <<>>)

\* await unregisterAll() at the start of setupHotkeys
SetupCall(list) == Call("unregisterAll", "", Registrable(list))

\* the call a setupHotkeys run issues when the one it awaited is served
Awaited(call) ==
  IF call.rest = <<>> THEN <<>>
  ELSE <<Call("register", Head(call.rest).shortcut, Tail(call.rest))>>

\* the effect on [shortcuts, settingsVersion]: the cleanup of the previous
\* run, then setupHotkeys for the list of this render
RunEffect(list) == ipc' = ipc \o <<CleanupCall, SetupCall(list)>>

\* setShortcuts(list) and the render after it
SetShortcuts(list) ==
  /\ shortcuts' = list
  /\ RunEffect(list)
  /\ event' = Event("setShortcuts", "")
  /\ AppFrame
  /\ UNCHANGED <<autoApplyBackground, store, registered>>

\* setSettingsVersion(v => v + 1) and the render after it
SettingsVersionChanged ==
  /\ RunEffect(shortcuts)
  /\ event' = Event("settingsVersion", "")
  /\ AppFrame
  /\ UNCHANGED <<autoApplyBackground, store, shortcuts, registered>>

\* the plugin serves the oldest call; the run that awaited it goes on
Serve ==
  /\ ipc # <<>>
  /\ registered' = IF Head(ipc).call = "unregisterAll" THEN {}
                   ELSE registered \cup {Head(ipc).key}
  /\ ipc' = Tail(ipc) \o Awaited(Head(ipc))
  /\ event' = Event("served", Head(ipc).call)
  /\ AppFrame
  /\ UNCHANGED <<autoApplyBackground, store, shortcuts>>

(***************************************************************************)
(* UpdateDialog                                                            *)
(***************************************************************************)
DialogFrame ==
  UNCHANGED <<hookVars, selectedAnnotation, selectedTool, gesture, ioVars,
              mode, tempScreenshotPath, isCapturing, error, appSaves, session,
              captures, autoApplyBackground, shouldAutoApply, hotkeyVars>>

\* the effect on [open]: a closed dialog is reset
ResetOnClose(dialog) ==
  IF ~dialog.open THEN Dialog(dialog.open, "available", 0, "null") ELSE dialog

\* the parent renders the dialog with another value of the open prop
OpenChange(isOpen) ==
  /\ isOpen # updateDialog.open
  /\ updateDialog' = ResetOnClose([updateDialog EXCEPT !.open = isOpen])
  /\ event' = Event("open", IF isOpen THEN "true" ELSE "false")
  /\ UNCHANGED updateCalls
  /\ DialogFrame

\* the footer shows Update Now in state available and Try Again in state
\* error, both with onClick={handleUpdate}
UpdateShown == updateDialog.open /\ updateDialog.state \in {"available", "error"}

\* handleUpdate up to await onUpdate(progressCallback)
HandleUpdate ==
  /\ UpdateShown
  /\ updateDialog' = Dialog(updateDialog.open, "downloading", 0, "null")
  /\ updateCalls' = Append(updateCalls, 0)
  /\ event' = Event("button", "update")
  /\ DialogFrame

\* progressCallback(progressValue), called by the k-th onUpdate under way
ProgressCallback(k, progressValue) ==
  /\ k \in 1..Len(updateCalls)
  /\ updateCalls[k] < progressValue
  /\ updateCalls' = [updateCalls EXCEPT ![k] = progressValue]
  /\ updateDialog' = [updateDialog EXCEPT
                        !.progress = progressValue,
                        !.state = IF progressValue >= 100 THEN "installing" ELSE @]
  /\ event' = Event("progress", "")
  /\ DialogFrame

\* handleUpdate after onUpdate: it resolved, or it threw
UpdateDone(k, ok) ==
  /\ k \in 1..Len(updateCalls)
  /\ updateCalls' = RemoveAt(updateCalls, k)
  /\ updateDialog' = IF ok THEN [updateDialog EXCEPT !.state = "ready"]
                     ELSE [updateDialog EXCEPT !.state = "error", !.error = "Update failed"]
  /\ event' = Event("update", IF ok THEN "ready" ELSE "error")
  /\ DialogFrame

\* handleSkip, of Later and Close: onSkip(), and onOpenChange(false), on
\* which the parent closes the dialog
HandleSkip ==
  /\ UpdateShown
  /\ updateDialog' = ResetOnClose([updateDialog EXCEPT !.open = FALSE])
  /\ event' = Event("button", "skip")
  /\ UNCHANGED updateCalls
  /\ DialogFrame

(***************************************************************************)
(* Specifications                                                          *)
(***************************************************************************)
\* the hook alone: ImageEditor and App stay as they are
HookOnly == UNCHANGED <<uiVars, ioVars, appVars>>

Next ==
  \/ EditWindow /\ HookOnly /\ \E type \in BackgroundTypes : SetBackgroundType(type)
  \/ EditWindow /\ HookOnly /\ \E color \in CustomColors : SetCustomColor(color)
  \/ EditWindow /\ HookOnly /\ \E src \in ImageSrcs : SetSelectedImage(src)
  \/ EditWindow /\ HookOnly /\ \E gradient \in GradientOptions : SetGradient(gradient)
  \/ HookOnly /\ \E amount \in BlurInputs : SetBlurAmount(amount)
  \/ EditWindow /\ HookOnly /\ \E amount \in NoiseValues : SetNoiseAmount(amount)
  \/ EditWindow /\ HookOnly /\ \E radius \in RadiusValues : SetBorderRadius(radius)
  \/ EditWindow /\ HookOnly /\ \E imageSrc \in ImageSrcs : HandleImageSelect(imageSrc)
  \/ EditWindow /\ HookOnly /\ \E blur \in ShadowBlurValues : SetShadowBlur(blur)
  \/ EditWindow /\ HookOnly /\ \E offsetX \in ShadowOffsetXValues : SetShadowOffsetX(offsetX)
  \/ EditWindow /\ HookOnly /\ \E offsetY \in ShadowOffsetYValues : SetShadowOffsetY(offsetY)
  \/ EditWindow /\ HookOnly /\ \E opacity \in ShadowOpacityValues : SetShadowOpacity(opacity)
  \/ EditWindow /\ HookOnly /\ \E annotation \in NewAnnotations : AddAnnotation(annotation)
  \/ EditWindow /\ HookOnly /\ \E annotation \in EditedAnnotations : UpdateAnnotation(annotation)
  \/ EditWindow /\ HookOnly /\ \E id \in DeletedIds : DeleteAnnotation(id)
  \/ EditWindow /\ HookOnly /\ \E annotations \in AnnotationLists : SetAnnotations(annotations)
  \/ HookOnly /\ Undo
  \/ HookOnly /\ Redo
  \/ LoadWindow /\ HookOnly /\ \E storedBg \in StoredBackgrounds : LoadDefaultBackground(storedBg)

Spec == Init /\ [][Next]_vars

\* ImageEditor over one screenshot: the canvas, the toolbar, the properties
\* panel and the keyboard
EditorWindow == Len(pastRef) + Len(futureRef) < MaxEdits

\* a drag starts while the two stacks hold no more than MaxEdits entries
GestureWindow == Len(pastRef) + Len(futureRef) <= MaxEdits

\* the keyboard, the toolbar and the panels are used between pointer gestures
Quiet == gesture.phase = "idle"

EditorNext ==
  \/ ImageLoaded
  \/ Quiet /\ \E tool \in ToolTypes : SelectTool(tool)
  \/ DrawStart
  \/ \E annotation \in NewAnnotations, degenerate \in BOOLEAN :
       (degenerate \/ EditorWindow) /\ DrawEnd(annotation, degenerate)
  \/ GestureWindow /\ \E i \in 1..Len(state.annotations) : DragStart(i)
  \/ PointerMiss
  \/ gesture.moves < MaxMoves /\ DragMove
  \/ DragEnd
  \/ EditorWindow /\ \E i \in 1..Len(state.annotations) : CanvasDelete(i)
  \/ EditorWindow /\ PropertiesUpdate
  \/ EditorWindow /\ HandleDeleteSelected
  \/ \E e \in EditKeyEvents :
       Quiet /\ (EditorWindow \/ ~IsDeleteKey(e.key)) /\ EditKeyDown(e)
  \/ Quiet /\ UndoButton
  \/ Quiet /\ RedoButton

EditorSpec == Init /\ [][EditorNext]_vars

\* App before the first capture
AppStart ==
  /\ InitEditor
  /\ mode = "main"
  /\ tempScreenshotPath = 0
  /\ images = {}
  /\ updateDialog = ClosedDialog
  /\ updateCalls = <<>>
  /\ isCapturing = FALSE
  /\ error = "null"
  /\ appSaves = <<>>
  /\ session = 0
  /\ captures = 0
  /\ autoApplyBackground = FALSE
  /\ shouldAutoApply = <<>>

\* captures open the editor, save and cancel close it; the hotkey of the
\* default list is registered
AppInit ==
  /\ AppStart
  /\ store = <<>>
  /\ shortcuts = DEFAULT_SHORTCUTS
  /\ registered = {"CommandOrControl+Shift+2"}
  /\ ipc = <<>>

\* a capture starts while few have been taken or are under way
CaptureWindow == captures + Len(shouldAutoApply) < MaxCaptures

AppWindow == Len(pastRef) + Len(futureRef) < MaxAppEdits

\* a new export is followed once the exports of earlier editors have ended
SlotFree ==
  /\ saveJob.pc = "idle" \/ Alive(saveJob)
  /\ copyJob.pc = "idle" \/ Alive(copyJob)

AppNext ==
  \/ CaptureWindow /\ HandleCapture
  \/ CaptureWindow /\ HotkeyCapture
  \/ \E k \in 1..Len(shouldAutoApply), outcome \in CaptureOutcomes : CaptureDone(k, outcome)
  \/ \E savedAutoApply \in BOOLEAN : SetAutoApplyBackground(savedAutoApply)
  \/ ImageLoaded
  \/ ImageLoadFailed
  \/ AppWindow /\ \E type \in BackgroundTypes : BackgroundPanel(type)
  \/ Mounted /\ UndoButton
  \/ Mounted /\ RedoButton
  \/ SlotFree /\ SaveButton
  \/ SlotFree /\ CopyButton
  \/ CancelButton
  \/ \E e \in ExportKeyEvents : SlotFree /\ ExportKeyDown(e)
  \/ \E outcome \in RenderOutcomes : SaveRendered(outcome)
  \/ \E blob \in BOOLEAN : SaveEncoded(blob)
  \/ Len(appSaves) < MaxSaveCalls /\ SaveRead
  \/ SaveReadFailed
  \/ \E outcome \in RenderOutcomes : CopyRendered(outcome)
  \/ \E ok \in BOOLEAN : CopyInvoked(ok)
  \/ \E k \in 1..Len(appSaves), ok \in BOOLEAN : EditorSaveDone(k, ok)

AppSpec == AppInit /\ [][AppNext]_vars

\* the calls of one event and the render after them, while the history is
\* short
BatchWindow == Len(pastRef) + Len(futureRef) + Len(pending) <= MaxDepth

BatchDepth == Len(pastRef) + Len(futureRef) <= MaxDepth

BatchInputs == {20}

BatchNext ==
  \/ Len(pending) < MaxBatch /\ BatchWindow /\ HookOnly
       /\ \E amount \in BatchInputs, eager \in BOOLEAN : SetBlurAmountCall(amount, eager)
  \/ Len(pending) < MaxBatch /\ BatchDepth /\ HookOnly
       /\ \E eager \in BOOLEAN : UndoCall(eager)
  \/ Len(pending) < MaxBatch /\ BatchDepth /\ HookOnly
       /\ \E eager \in BOOLEAN : RedoCall(eager)
  \/ Len(pending) < MaxBatch /\ BatchWindow /\ HookOnly
       /\ \E annotations \in AnnotationLists, eager \in BOOLEAN :
            SetAnnotationsCall(annotations, eager)
  \/ HookOnly /\ RenderQueue

BatchSpec == Init /\ [][BatchNext]_vars

\* useHistory alone, with reset
HistoryOnly ==
  UNCHANGED <<state, pastRef, futureRef, result, bgLoad, run, preLoad, pending,
              uiVars, ioVars, appVars>>

\* history variable: the call made on useHistory, its argument and the stack
\* lengths before it
HistoryLast(op, value) ==
  [op |-> op, value |-> value, pastLen |-> Len(hPast), futureLen |-> Len(hFuture)]

HistoryWindow == Len(hPast) + Len(hFuture) < MaxHistoryDepth

HistoryNext ==
  \/ HistoryWindow /\ HistoryOnly
       /\ \E value \in HistoryValues : HistorySet(value) /\ last' = HistoryLast("set", value)
  \/ HistoryOnly /\ HistoryUndo /\ last' = HistoryLast("undo", hCurrent)
  \/ HistoryOnly /\ HistoryRedo /\ last' = HistoryLast("redo", hCurrent)
  \/ HistoryOnly
       /\ \E value \in HistoryValues : HistoryReset(value) /\ last' = HistoryLast("reset", value)

HistorySpec == Init /\ [][HistoryNext]_vars

\* the shortcut list between the preferences page, the store and App
ShortcutInit ==
  /\ AppStart
  /\ store = <<>>
  /\ shortcuts = DEFAULT_SHORTCUTS
  /\ registered = {}
  /\ ipc = <<>>

ShortcutNext ==
  \/ \E list \in SavedLists : SaveShortcuts(list)
  \/ Len(store) <= MaxShortcuts /\ \E savedAutoApply \in BOOLEAN : LoadSettings(savedAutoApply)

ShortcutSpec == ShortcutInit /\ [][ShortcutNext]_vars

\* App from its mount: the first setupHotkeys run has called unregisterAll
HotkeyInit ==
  /\ AppStart
  /\ store = <<>>
  /\ shortcuts = DEFAULT_SHORTCUTS
  /\ registered = {}
  /\ ipc = <<SetupCall(DEFAULT_SHORTCUTS)>>

HotkeyNext ==
  \/ Len(ipc) <= MaxPending /\ \E list \in HotkeyLists : SetShortcuts(list)
  \/ Len(ipc) <= MaxPending /\ SettingsVersionChanged
  \/ Serve

HotkeySpec == HotkeyInit /\ [][HotkeyNext]_vars

\* every handleCapture call under way ends: each external call it awaits
\* returns or rejects
CaptureEnds ==
  \E k \in 1..Len(shouldAutoApply), outcome \in CaptureOutcomes : CaptureDone(k, outcome)

\* a handleSave call under way goes on: renderHighQualityCanvas settles,
\* toBlob calls back, the FileReader fires loadend or error
SaveGoesOn ==
  \/ \E outcome \in RenderOutcomes : SaveRendered(outcome)
  \/ \E blob \in BOOLEAN : SaveEncoded(blob)
  \/ Len(appSaves) < MaxSaveCalls /\ SaveRead
  \/ SaveReadFailed

\* a handleCopy call under way goes on
CopyGoesOn ==
  \/ \E outcome \in RenderOutcomes : CopyRendered(outcome)
  \/ \E ok \in BOOLEAN : CopyInvoked(ok)

\* App without the edits of the editor: captures, the image of the editor,
\* save, copy and cancel
CaptureNext ==
  \/ CaptureWindow /\ HandleCapture
  \/ CaptureWindow /\ HotkeyCapture
  \/ \E k \in 1..Len(shouldAutoApply), outcome \in CaptureOutcomes : CaptureDone(k, outcome)
  \/ \E savedAutoApply \in BOOLEAN : SetAutoApplyBackground(savedAutoApply)
  \/ ImageLoaded
  \/ ImageLoadFailed
  \/ SlotFree /\ SaveButton
  \/ SlotFree /\ CopyButton
  \/ CancelButton
  \/ \E outcome \in RenderOutcomes : SaveRendered(outcome)
  \/ \E blob \in BOOLEAN : SaveEncoded(blob)
  \/ Len(appSaves) < MaxSaveCalls /\ SaveRead
  \/ SaveReadFailed
  \/ \E outcome \in RenderOutcomes : CopyRendered(outcome)
  \/ \E ok \in BOOLEAN : CopyInvoked(ok)
  \/ \E k \in 1..Len(appSaves), ok \in BOOLEAN : EditorSaveDone(k, ok)

CaptureSpec == AppInit /\ [][CaptureNext]_vars

\* every handleCapture call under way ends
AppLiveSpec == CaptureSpec /\ WF_vars(CaptureEnds)

\* every save and copy under way goes on
ExportLiveSpec == CaptureSpec /\ WF_vars(SaveGoesOn) /\ WF_vars(CopyGoesOn)

\* the update dialog alone
UpdateNext ==
  \/ \E isOpen \in BOOLEAN : OpenChange(isOpen)
  \/ Len(updateCalls) < MaxUpdates /\ HandleUpdate
  \/ \E k \in 1..Len(updateCalls), progressValue \in ProgressValues :
       ProgressCallback(k, progressValue)
  \/ \E k \in 1..Len(updateCalls), ok \in BOOLEAN : UpdateDone(k, ok)
  \/ HandleSkip

UpdateSpec == AppInit /\ [][UpdateNext]_vars

(***************************************************************************)
(* Claims                                                                  *)
(***************************************************************************)
\* two states with the same settings and annotations (whatever object holds them)
SameValue(s, t) == s.settings = t.settings /\ s.annotations = t.annotations

\* C1: every mutator of useEditorState, and useHistory.set, appends the
\* pre-mutation current state to past (dropping the oldest entry when past
\* already holds 50), empties future and makes the new value current.
MutationPushesHistory ==
  [][ last'.op \in Mutators =>
        /\ pastRef' = IF Len(pastRef) < 50 THEN pastRef \o <<state>>
                      ELSE Tail(pastRef) \o <<state>>
        /\ futureRef' = <<>>
        /\ state'.ref # state.ref
        /\ hPast' = IF Len(hPast) < 50 THEN hPast \o <<hCurrent>>
                    ELSE Tail(hPast) \o <<hCurrent>>
        /\ hFuture' = <<>>
        /\ hCurrent' = state'
    ]_vars

\* C1 witness: a mutator other than the blur slider has acted on a past of 50
\* entries and the oldest of them was dropped
MutationAtFullHistory ==
  /\ last.op \in Mutators \ {"setBlurAmount"}
  /\ last.pastLen = 50
  /\ Len(pastRef) = 50
  /\ pastRef[50].settings.blurAmount = 50
  /\ pastRef[1].settings.blurAmount = 1
  /\ futureRef = <<>>

\* C2: undo with an empty past changes nothing; otherwise the last past entry
\* becomes current, leaves past, and the old current goes to the front of future.
UndoContract ==
  [][ last'.op = "undo" =>
        IF pastRef = <<>>
        THEN UNCHANGED <<state, pastRef, futureRef>>
        ELSE /\ state' = pastRef[Len(pastRef)]
             /\ pastRef' = SubSeq(pastRef, 1, Len(pastRef) - 1)
             /\ futureRef' = <<state>> \o futureRef
    ]_vars

\* C2 witness: an undo has acted on a non-empty past while future already held
\* an entry
UndoneTwice ==
  /\ last.op = "undo"
  /\ last.pastLen > 0
  /\ last.futureLen > 0
  /\ Len(futureRef) = last.futureLen + 1

\* C3: redo with an empty future changes nothing; otherwise the first future
\* entry becomes current, leaves future, and the old current is appended to past.
RedoContract ==
  [][ last'.op = "redo" =>
        IF futureRef = <<>>
        THEN UNCHANGED <<state, pastRef, futureRef>>
        ELSE /\ state' = Head(futureRef)
             /\ futureRef' = Tail(futureRef)
             /\ pastRef' = pastRef \o <<state>>
    ]_vars

\* C3 witness: a redo has acted on a future of two or more entries
RedoneWithMoreToRedo ==
  /\ last.op = "redo"
  /\ last.futureLen >= 2
  /\ Len(futureRef) = last.futureLen - 1
  /\ Len(pastRef) = last.pastLen + 1

\* C4: after k (1 <= k <= 50) consecutive mutations from S, k undos make S
\* current again, and k redos after them make the state of the k-th mutation
\* current.
UndoRedoInverse ==
  /\ (run.k >= 1 /\ run.undos = run.k /\ run.redos = 0) => state = run.base
  /\ (run.k >= 1 /\ run.redos = run.k) => state = run.top

\* C4 witness: 50 mutations, 50 undos and 50 redos in a row
FiftyUndoneAndRedone == run.k = 50 /\ run.undos = 50 /\ run.redos = 50

\* C5: neither stack ever holds more than 50 entries; after n sequential
\* distinct mutations (one slider step each) min(n, 50) undo steps exist, and
\* the oldest state any undo can reach is the one n - 50 mutations in.
HistoryCap ==
  /\ Len(pastRef) <= 50
  /\ Len(futureRef) <= 50
  /\ SliderRun =>
       LET n == History[Len(History)].settings.blurAmount IN
       /\ Len(pastRef) + Len(futureRef) = IF n < 50 THEN n ELSE 50
       /\ History[1].settings.blurAmount = IF n < 50 THEN 0 ELSE n - 50

\* C5 witness: 60 slider steps and then 50 undos: past is empty and the state
\* of the 10th mutation is current
SixtyStepsAllUndone ==
  /\ SliderRun
  /\ pastRef = <<>>
  /\ Len(futureRef) = 50
  /\ futureRef[50].settings.blurAmount = 60
  /\ state.settings.blurAmount = 10

\* C6: a mutation made while there is something to redo empties future, so
\* canRedo is false, and a redo right after a mutation changes nothing.
FreshEditClearsRedo ==
  [][ /\ (last'.op \in Mutators /\ futureRef # <<>>) =>
           (futureRef' = <<>> /\ ~result'.canRedo)
      /\ (last.op \in Mutators /\ last'.op = "redo") =>
           UNCHANGED <<state, pastRef, futureRef, result>>
    ]_vars

\* C6 witness: an annotation update was made with an undone state to redo
EditedAfterUndo ==
  /\ last.op = "updateAnnotation"
  /\ last.futureLen >= 1
  /\ futureRef = <<>>
  /\ ~result.canRedo

\* C7: the exposed canUndo / canRedo say exactly whether past / future hold
\* an entry, for the useEditorState result and for useHistory's HistoryState.
CanUndoRedoDerived ==
  /\ result.canUndo <=> pastRef # <<>>
  /\ result.canRedo <=> futureRef # <<>>
  /\ result.settings = state.settings
  /\ result.annotations = state.annotations
  /\ HistoryState.canUndo <=> hPast # <<>>
  /\ HistoryState.canRedo <=> hFuture # <<>>

\* C7 witness: after a setter called with the value the field already has,
\* then an edit and an undo, both flags are true
BothFlagsTrue ==
  /\ last.op = "undo"
  /\ result.canUndo
  /\ result.canRedo
  /\ pastRef # <<>>
  /\ SameValue(pastRef[1], state)

\* C8 as stated: no entry of past or future equals the current state
NoEntryEqualsCurrent ==
  /\ \A i \in 1..Len(pastRef) : ~SameValue(pastRef[i], state)
  /\ \A i \in 1..Len(futureRef) : ~SameValue(futureRef[i], state)

\* C8 amended: the current state object is in neither stack, and no state
\* object is held twice; an entry may still equal the current state in value.
CurrentObjectNotInStacks ==
  /\ \A i \in 1..Len(pastRef) : pastRef[i].ref # state.ref
  /\ \A i \in 1..Len(futureRef) : futureRef[i].ref # state.ref
  /\ Cardinality(RefsOf(History)) = Len(History)

\* C8 witness: a setter was called with the value the field already has: the
\* last past entry equals the current state in value and is another object
SameValuePushed ==
  /\ last.op = "setBlurAmount"
  /\ pastRef # <<>>
  /\ SameValue(pastRef[Len(pastRef)], state)
  /\ pastRef[Len(pastRef)].ref # state.ref

HasDuplicateId(annotations) ==
  \E i, j \in 1..Len(annotations) : i # j /\ annotations[i].id = annotations[j].id

\* C9: no two annotations of the current state, or of a state held in past
\* or future, share an id.
AnnotationIdsUnique ==
  \A i \in 1..Len(History) : ~HasDuplicateId(History[i].annotations)

\* C10: updateAnnotation or deleteAnnotation with an id no annotation of the
\* current state has changes neither current nor past nor future.
MissingIdIsNoOp ==
  [][ (last'.op \in {"updateAnnotation", "deleteAnnotation"} /\ ~last'.hit) =>
        /\ SameValue(state', state)
        /\ pastRef' = pastRef
        /\ futureRef' = futureRef
    ]_vars

\* C11: addAnnotation puts the new annotation at the end and leaves the
\* existing entries and their order as they were; updateAnnotation with a
\* matching id replaces exactly one entry, keeping the length and every
\* position; deleteAnnotation with a matching id removes one entry and keeps
\* the order of the rest.
AnnotationMutatorsContract ==
  [][ state' # state =>
        LET old == state.annotations
            new == state'.annotations
        IN /\ last'.op = "addAnnotation" =>
                /\ Len(new) = Len(old) + 1
                /\ SubSeq(new, 1, Len(old)) = old
           /\ last'.op = "updateAnnotation" /\ last'.hit =>
                /\ Len(new) = Len(old)
                /\ \E i \in 1..Len(old) :
                     /\ new[i].id = old[i].id
                     /\ \A j \in 1..Len(old) : j # i => new[j] = old[j]
           /\ last'.op = "deleteAnnotation" /\ last'.hit =>
                \E i \in 1..Len(old) : new = RemoveAt(old, i)
    ]_vars

SettingsSetters ==
  { "setBackgroundType", "setCustomColor", "setSelectedImage", "setGradient",
    "setBlurAmount", "setNoiseAmount", "setBorderRadius", "handleImageSelect" }

ShadowSetters == {"setShadowBlur", "setShadowOffsetX", "setShadowOffsetY", "setShadowOpacity"}

AnnotationMutators == {"addAnnotation", "updateAnnotation", "deleteAnnotation", "setAnnotations"}

\* the fields of settings, or of settings.shadow, that a setter is for
TargetFields(op) ==
  CASE op = "setBackgroundType" -> {"backgroundType"}
    [] op = "setCustomColor" -> {"customColor"}
    [] op = "setSelectedImage" -> {"selectedImageSrc"}
    [] op = "setGradient" -> {"gradientId", "gradientSrc", "gradientColors"}
    [] op = "setBlurAmount" -> {"blurAmount"}
    [] op = "setNoiseAmount" -> {"noiseAmount"}
    [] op = "setBorderRadius" -> {"borderRadius"}
    [] op = "handleImageSelect" -> {"selectedImageSrc", "backgroundType"}
    [] op = "setShadowBlur" -> {"blur"}
    [] op = "setShadowOffsetX" -> {"offsetX"}
    [] op = "setShadowOffsetY" -> {"offsetY"}
    [] op = "setShadowOpacity" -> {"opacity"}
    [] OTHER -> {}

\* C12: a settings setter leaves the annotations and every other field of
\* settings as they were; a shadow setter leaves the annotations, every field
\* of settings but shadow, and the other three fields of shadow as they
\* were; an annotation mutator leaves settings as they were.
SettersChangeOnlyTheirFields ==
  [][ state' # state /\ last'.op \in Mutators =>
        LET old == state.settings
            new == state'.settings
            op == last'.op
        IN /\ op \in SettingsSetters =>
                /\ state'.annotations = state.annotations
                /\ \A f \in DOMAIN old \ TargetFields(op) : new[f] = old[f]
           /\ op \in ShadowSetters =>
                /\ state'.annotations = state.annotations
                /\ \A f \in DOMAIN old \ {"shadow"} : new[f] = old[f]
                /\ \A f \in DOMAIN old.shadow \ TargetFields(op) : new.shadow[f] = old.shadow[f]
           /\ op \in AnnotationMutators => new = old
    ]_vars

\* C12 witness: the shadow offset was set after the shadow blur had been
SecondShadowFieldSet ==
  /\ last.op = "setShadowOffsetX"
  /\ state.settings.shadow.offsetX = 3
  /\ state.settings.shadow.blur = 5

\* C13: the background load pushes nothing onto past or future, and once it
\* has replaced the image reference no undo makes current a state that
\* carries the reference it replaced.
LoadIsNotUndoable ==
  /\ last.op = "loadDefaultBackground" =>
       Len(pastRef) = last.pastLen /\ Len(futureRef) = last.futureLen
  /\ bgLoad = "done" /\ preLoad # "none" /\ last.op = "undo" /\ last.pastLen > 0 =>
       state.settings.selectedImageSrc # preLoad

SelectedIsListed ==
  selectedAnnotation = NULL \/ HasId(state.annotations, selectedAnnotation[1].id)

DeleteKeyContract ==
  [][ event'.type = "keydown" /\ event'.arg.key \in {"Delete", "Backspace"} =>
        IF event'.arg.target \notin {"input", "textarea"} /\ selectedAnnotation # NULL
        THEN /\ last'.op = "deleteAnnotation"
             /\ ~HasId(state'.annotations, selectedAnnotation[1].id)
             /\ state'.settings = state.settings
             /\ pastRef' = Append(pastRef, state)
             /\ selectedAnnotation' = NULL
        ELSE UNCHANGED <<state, pastRef, futureRef, selectedAnnotation>>
    ]_vars

\* C17 witness: Backspace outside a text input has just deleted the selected
\* annotation
BackspaceDeletedSelection ==
  /\ event.type = "keydown" /\ event.arg.key = "Backspace" /\ event.arg.target = "body"
  /\ last.op = "deleteAnnotation" /\ last.hit
  /\ selectedAnnotation = NULL
  /\ Len(pastRef) = last.pastLen + 1
  /\ Len(pastRef[Len(pastRef)].annotations) > Len(state.annotations)

\* C18: the commit of a drawing gesture appends exactly one annotation through
\* addAnnotation (one more entry on past), makes select the active tool and
\* selects the new annotation, whichever drawing tool was active.
DrawCommitContract ==
  [][ event'.type = "drawcommit" =>
        /\ last'.op = "addAnnotation"
        /\ Len(state'.annotations) = Len(state.annotations) + 1
        /\ SubSeq(state'.annotations, 1, Len(state.annotations)) = state.annotations
        /\ pastRef' = Append(pastRef, state)
        /\ selectedTool' = "select"
        /\ selectedAnnotation' = Some(state'.annotations[Len(state'.annotations)])
    ]_vars

\* C18 witness: a second annotation was drawn with the arrow tool
ArrowDrawnAndSelected ==
  /\ event = Event("drawcommit", "arrow")
  /\ selectedTool = "select"
  /\ Len(state.annotations) = 2
  /\ selectedAnnotation = Some(state.annotations[2])

\* C19: a drag of one or more pointer-move samples ends with exactly one more
\* entry on past than at its start, and that entry is the state at its start.
DragIsOneHistoryEntry ==
  [][ gesture.phase = "dragging" /\ gesture'.phase = "idle" /\ gesture.moves >= 1 =>
        /\ Len(pastRef) = gesture.pastLen + 1
        /\ pastRef[Len(pastRef)] = gesture.base
    ]_vars

\* an export of the editor instance is under way: a handleSave or handleCopy
\* call, or a handleEditorSave call that awaits save_edited_image
Exporting(instance) ==
  \/ saveJob.pc # "idle" /\ saveJob.instance = instance
  \/ copyJob.pc # "idle" /\ copyJob.instance = instance
  \/ \E k \in 1..Len(appSaves) : appSaves[k] = instance

\* C14: handleSave and handleCopy start an export only while no export of the
\* editor is under way, from its acceptance to the end of its
\* save_edited_image call.
SaveCopyExclusive ==
  [][ \/ saveJob.pc = "idle" /\ saveJob'.pc = "render"
      \/ copyJob.pc = "idle" /\ copyJob'.pc = "render"
      => ~Exporting(session) ]_vars

\* C15: when the save_edited_image call of a save or of a copy of the editor
\* on screen fails, the editor stays open on the same screenshot and its
\* state and its two stacks stay as they were.
FailedExportKeepsEditor ==
  [][ /\ Mounted
      /\ \/ /\ event'.type = "saved" /\ event'.arg = "failed"
            /\ \A k \in 1..Len(appSaves) : appSaves[k] = session
         \/ /\ event'.type = "copy" /\ event'.arg = "failed"
            /\ copyJob.instance = session
      => /\ mode' = "editing"
         /\ tempScreenshotPath' = tempScreenshotPath
         /\ UNCHANGED <<state, pastRef, futureRef>> ]_vars

\* C20: whenever the editor comes to show a screenshot, a first one or another
\* one, its state is the default state and its two stacks are empty.
EditorStartsFresh ==
  [][ /\ mode' = "editing" /\ tempScreenshotPath' # 0
      /\ ~Mounted \/ tempScreenshotPath' # tempScreenshotPath
      => /\ state'.settings = DEFAULT_SETTINGS
         /\ state'.annotations = <<>>
         /\ pastRef' = <<>>
         /\ futureRef' = <<>> ]_vars

\* C24 (mount effect): a step of the background load that fails changes
\* nothing but the position of the effect: current, past, future and the
\* memoised result stay as they are, and neither the editor's load error nor
\* the app's error is set; no image reference is ever recorded as replaced by
\* a failed load.
FailedLoadOnlyLogged ==
  /\ [](bgLoad = "failed" => preLoad = "none")
  /\ [][(bgLoad = "pending" /\ bgLoad' = "failed") =>
         UNCHANGED <<state, pastRef, futureRef, result, hCurrent, hPast, hFuture,
                     loadError, error>>]_vars

\* C24 witness: the load has just failed after the first edit
LoadFailedAfterEdit ==
  /\ bgLoad = "failed"
  /\ last.op = "loadDefaultBackground"
  /\ Len(pastRef) = 1
  /\ state # DEFAULT_STATE

\* C29: past and future never hold more than 50 entries between them; a redo
\* appends current to past and an undo prepends current to future without
\* losing an entry, and a mutation loses at most the oldest entry of past.
HistoryBudget ==
  /\ [](Len(pastRef) + Len(futureRef) <= 50)
  /\ [][((last'.op = "redo" /\ futureRef # <<>>) =>
            pastRef' = Append(pastRef, state))
         /\ ((last'.op = "undo" /\ pastRef # <<>>) =>
               futureRef' = <<state>> \o futureRef)
         /\ (last'.op \in Mutators =>
               pastRef' = IF Len(pastRef) < 50 THEN Append(pastRef, state)
                          ELSE Append(Tail(pastRef), state))]_vars

\* C29 witness: a redo made while past and future hold 50 entries together,
\* with more left to redo
RedoneAtFullBudget ==
  /\ last.op = "redo"
  /\ last.futureLen >= 2
  /\ last.pastLen + last.futureLen = 50
  /\ Len(pastRef) + Len(futureRef) = 50

\* both hooks hold the same current, past and future
InLockstep ==
  /\ state = hCurrent
  /\ pastRef = hPast
  /\ futureRef = hFuture

\* C30: useEditorState and useHistory<EditorState>, given the same mutations
\* (as set(new state)), undos and redos, hold the same current, past and
\* future after every step: every such step keeps them equal, and they are
\* equal as long as the background load, which is none of these steps, has
\* replaced nothing.
HistoryRefinesUseHistory ==
  /\ [](preLoad = "none" => InLockstep)
  /\ [][(InLockstep /\ last'.op \in Mutators \cup {"undo", "redo"}) =>
         InLockstep']_vars

\* C30 witness: more than 50 mutations, so both hooks have evicted, then an
\* undo
LockstepPastTheCap ==
  /\ preLoad = "none"
  /\ last.op = "undo"
  /\ Len(hPast) = 49
  /\ Len(hFuture) = 1
  /\ hCurrent.settings.blurAmount > 50

\* C28 (annotation canvas): the pointer-up of a drawing gesture whose start
\* and end are equal or within epsilon adds no annotation and pushes nothing:
\* current, past and future, the selection and the active tool are unchanged.
DegenerateDrawDiscarded ==
  [][event'.type = "drawdiscard" =>
       UNCHANGED <<state, pastRef, futureRef, result, selectedAnnotation,
                   selectedTool>>]_vars

\* C28 witness: a degenerate rectangle was discarded in an editor that
\* already holds an annotation and an entry on past
RectangleDiscarded ==
  /\ event = Event("drawdiscard", "rectangle")
  /\ gesture = IdleGesture
  /\ selectedTool = "rectangle"
  /\ Len(state.annotations) = 1
  /\ Len(pastRef) = 1

LoadErrorBlocksEditing ==
  /\ [](loadError = "Failed to load image" => ~imageLoaded)
  /\ [][(loadError = "Failed to load image" /\ loadError' = loadError) =>
         /\ isSaving' => isSaving
         /\ isCopying' => isCopying
         /\ UNCHANGED <<state, pastRef, futureRef>>]_vars

\* C22: whatever set, undo and redo calls are made, several in one event
\* included, current is never undefined and neither stack holds undefined.
HistoryOperationsTotal ==
  /\ state # UNDEFINED
  /\ Defined(pastRef) = pastRef
  /\ Defined(futureRef) = futureRef

\* C23 (useHistory.reset): after reset(value), from whatever history, past and
\* future are empty, value is current and canUndo and canRedo are false; an
\* undo or a redo that follows changes nothing.
ResetContract ==
  /\ [](last.op = "reset" =>
         /\ hPast = <<>>
         /\ hFuture = <<>>
         /\ hCurrent = last.value
         /\ ~HistoryState.canUndo
         /\ ~HistoryState.canRedo)
  /\ [][(last.op = "reset" /\ last'.op \in {"undo", "redo"}) =>
         UNCHANGED <<hCurrent, hPast, hFuture>>]_vars

\* C23 witness: a reset to another value made with entries on both stacks
ResetWithBothStacks ==
  /\ last.op = "reset"
  /\ last.pastLen >= 1
  /\ last.futureLen >= 2
  /\ last.value # DEFAULT_STATE
  /\ hCurrent = last.value

\* C26: loadSettings makes the stored shortcut list the list in memory, each
\* shortcut with its shortcut string and enabled flag as stored.
ShortcutsRoundTrip ==
  [][(event'.type = "loadSettings" /\ event.type = "saveShortcuts") =>
       shortcuts' = store]_vars

\* C27: once every call issued to the plugin has been served, the registered
\* hotkeys are those of the enabled capture shortcuts of the current list.
HotkeysMatchShortcuts ==
  ipc = <<>> => registered = HotkeysOf(shortcuts)

\* an undo or a redo made through the toolbar buttons or the keyboard
UndoRedoEvent(e) ==
  \/ e.type = "button" /\ e.arg \in {"undo", "redo"}
  \/ e.type = "keydown" /\ ~IsTextInput(e.arg.target)
       /\ (IsUndoKey(e.arg) \/ IsRedoKey(e.arg))

\* C37 (handleUndo, handleRedo): every undo or redo made through a button or
\* a key leaves no annotation selected and the tool as it was, also when the
\* stack it acts on is empty.
UndoRedoClearsSelection ==
  [][UndoRedoEvent(event') =>
       /\ selectedAnnotation' = NULL
       /\ selectedTool' = selectedTool]_vars

\* C37 witness: Cmd+Y with nothing to redo, pressed with the arrow tool
\* active and an annotation on the canvas
RedoKeyWithNothingToRedo ==
  /\ event = Event("keydown", KeyEvent("y", "body", TRUE, FALSE))
  /\ last.op = "redo"
  /\ last.futureLen = 0
  /\ Len(state.annotations) >= 1
  /\ selectedTool = "arrow"
  /\ selectedAnnotation = NULL

\* the number of shortcuts of a list that carry the given id
CountOf(list, id) == Len(SelectSeq(list, LAMBDA s : s.id = id))

\* C38: a second loadSettings in a row leaves the stored and the in-memory
\* shortcut lists as the first left them, and no loadSettings makes the
\* stored list longer or an id more frequent in it.
LoadSettingsIdempotent ==
  [][event'.type = "loadSettings" =>
       /\ event.type = "loadSettings" => UNCHANGED <<store, shortcuts>>
       /\ Len(store') <= Len(store)
       /\ \A i \in 1..Len(store') :
            CountOf(store', store'[i].id) <= CountOf(store, store'[i].id)]_vars


\* C36: a background load that completes right after the user selected a
\* background image leaves the image reference the user selected current.
UserImageSurvivesLoad ==
  [][(/\ last.op \in {"setSelectedImage", "handleImageSelect"}
      /\ last'.op = "loadDefaultBackground")
       => state'.settings.selectedImageSrc = state.settings.selectedImageSrc]_vars


\* the hook's state as the next render will see it: the rendered state and
\* the refs, with the queued updaters applied
Queued(queue, past, future) == RunQueue(queue, Hook(state, past, future))

\* C35: a setAnnotations call replaces only the annotation list of the state
\* that was current when it was made, other calls of the same event counted
\* in, and pushes that state onto past.
SetAnnotationsKeepsSettings ==
  [][(/\ last'.op = "setAnnotations"
      /\ pending' # <<>>
      /\ pending' # pending
      /\ Queued(pending, pastRef, futureRef).cur # UNDEFINED)
       => (/\ Queued(pending', pastRef', futureRef').cur.settings
                = Queued(pending, pastRef, futureRef).cur.settings
           /\ Queued(pending', pastRef', futureRef').past
                = PushPast(Queued(pending, pastRef, futureRef).past,
                           Queued(pending, pastRef, futureRef).cur))]_vars


\* C31: at most one handleCapture call is past its guard and not finished.
OneCaptureInFlight == Len(shouldAutoApply) <= 1


\* C32: the step that ends a handleCapture call, whatever its outcome, leaves
\* isCapturing false, and whenever isCapturing is true it is false again
\* later.
CaptureFlagReset ==
  /\ [][Len(shouldAutoApply') < Len(shouldAutoApply) =>
         (event'.arg \in CaptureOutcomes /\ ~isCapturing')]_vars
  /\ (isCapturing ~> ~isCapturing)

\* C32 witness: a capture rejected for missing permission has ended and the
\* flag is down
PermissionDeniedFlagDown ==
  /\ event = Event("capture", "permissionDenied")
  /\ error = "Screen Recording permission required"
  /\ ~isCapturing
  /\ shouldAutoApply = <<>>


\* C33: the step that ends a handleSave or handleCopy call of the editor on
\* screen leaves its busy flag false, and whenever isSaving or isCopying is
\* true it is false again later.
ExportFlagsReset ==
  /\ [][(saveJob.pc # "idle" /\ saveJob'.pc = "idle" /\ Alive(saveJob)) => ~isSaving']_vars
  /\ [][(copyJob.pc # "idle" /\ copyJob'.pc = "idle" /\ Alive(copyJob)) => ~isCopying']_vars
  /\ (isSaving ~> ~isSaving)
  /\ (isCopying ~> ~isCopying)

\* C33 witness: toBlob has handed a save a null blob, and save and copy are
\* enabled again
NullBlobFlagDown ==
  /\ event = Event("save", "no blob")
  /\ Mounted /\ imageLoaded
  /\ ~ExportDisabled
  /\ saveJob = NoJob


\* C34: the screenshot image, when set, is the image of the current
\* imagePath of the editor on screen, and the load or error event of an image
\* requested for another path changes none of screenshotImage, imageLoaded
\* and loadError.
LateImageEventsDropped ==
  /\ [](screenshotImage # 0 => (Mounted /\ imageLoaded /\ screenshotImage = tempScreenshotPath))
  /\ [][\A img \in images :
          (img.path # tempScreenshotPath /\ images' = images \ {img}) =>
             UNCHANGED <<screenshotImage, imageLoaded, loadError>>]_vars

\* C34 witness: the editor was given the path of a second capture, the image
\* of that path has loaded, and the event of the first image has come after
LateEventAfterNewPath ==
  /\ event = Event("image", "dropped")
  /\ Mounted /\ session = 1
  /\ tempScreenshotPath = 2
  /\ screenshotImage = 2
  /\ images = {}


\* C39: at most one onUpdate call of the dialog is under way.
OneUpdateInFlight == Len(updateCalls) <= 1

====
